---------------------------- MODULE Spec2Model ----------------------------
(***************************************************************************)
(* Model of the multi-agent DevOps triage workflow (backend/core):         *)
(* the LangGraph routing graph (workflow.py, routing.py), the node         *)
(* handlers (node.py), UnifiedDevOpsOrchestrator.execute (orchestrator.py) *)
(* and the /analyze entry point (app.py).                                  *)
(*                                                                         *)
(* Python dicts are TLA+ records/functions with string keys; d.get(k, v)   *)
(* is Get(d, k, v); None is the record None; lists are sequences.  A text  *)
(* is a set of fragments; `kw in text.lower()` is HasKw(text, kw), decided *)
(* by the table Keywords, which lists for each (lower-cased) fragment the  *)
(* keywords that occur in it as substrings.                                *)
(***************************************************************************)
EXTENDS Integers, Sequences, FiniteSets, TLC

VARIABLES
    pc,            \* the step about to run: the /analyze entry, a graph node, ...
    state,         \* the DevOpsWorkflowState threaded through the graph
    services,      \* collaborators built at start-up (present or absent)
    query,         \* request.query of the /analyze request
    result,        \* what execute returned (None before it returns)
    api_response,  \* what /analyze returned to the caller (None before)
    trace,         \* graph nodes executed so far, in order
    calls,         \* calls made to the LLMs, the correlation engine, the retriever
    inputs,        \* what the collaborators returned in this run
    k8s_case       \* input and output of _combine_k8s_findings (SpecCombine)

vars == <<pc, state, services, query, result, api_response, trace, calls,
          inputs, k8s_case>>

-----------------------------------------------------------------------------
(* Bounds of the model *)

MaxNamespaces == 1
MaxRecords == 3

-----------------------------------------------------------------------------
(* Python values *)

None == [none |-> TRUE]
EmptyDict == [k \in {} |-> TRUE]

Get(d, k, dflt) == IF k \in DOMAIN d THEN d[k] ELSE dflt

Put(d, k, v) == (k :> v) @@ d

Truthy(d) == d # None /\ DOMAIN d # {}

\* a slice that keeps the whole list
Take_KeepsAll(s, n) == s

Take(s, n) == IF Len(s) <= n THEN s ELSE SubSeq(s, 1, n)

RECURSIVE Concat(_)
Concat(ss) == IF ss = <<>> THEN <<>> ELSE Head(ss) \o Concat(Tail(ss))

SeqsUpTo(S, n) == UNION {[1..k -> S] : k \in 0..n}

Range(s) == {s[i] : i \in DOMAIN s}

-----------------------------------------------------------------------------
(* Texts.  Each fragment is listed with the keywords of the routing code   *)
(* that its lower-cased form contains as substrings.                       *)

Lower(frag) ==
    CASE frag = "Health check failures detected in GitHub PR for environment: ..., applications: .... Please analyze the Kubernetes cluster for these applications."
           -> "health check failures detected in github pr for environment: ..., applications: .... please analyze the kubernetes cluster for these applications."
      [] frag = "Jenkins build failures detected in GitHub PR. Please analyze the following Jenkins build URLs: ..."
           -> "jenkins build failures detected in github pr. please analyze the following jenkins build urls: ..."
      [] frag = "This PR is stuck" -> "this pr is stuck"
      [] frag = "Pods are crashlooping in stg-bug-buster namespace"
           -> "pods are crashlooping in stg-bug-buster namespace"
      [] OTHER -> frag

Keywords(frag) ==
    CASE frag = "health check failures detected in github pr for environment: ..., applications: .... please analyze the kubernetes cluster for these applications."
           -> {"health", "health check", "health check failure", "github", "pr",
               "kubernetes", "cluster"}
      [] frag = "jenkins build failures detected in github pr. please analyze the following jenkins build urls: ..."
           -> {"jenkins", "build", "github", "pr"}
      [] frag = "this pr is stuck" -> {"pr"}
      [] frag = "pods are crashlooping in stg-bug-buster namespace"
           -> {"pod", "namespace", "crash"}
      [] frag = "https://github.com/meesho/bug-buster-bot/pull/54"
           -> {"github", "github.com", "pull"}
      [] frag = "please grant me vault access" -> {}
      [] frag = "the pull request is red" -> {"pull", "pull request"}
      [] frag = "github actions are red" -> {"github"}
      [] frag = "jenkins build failed"
           -> {"jenkins", "build", "build failed", "jenkins build failed"}
      [] frag = "service is unhealthy" -> {"health", "unhealthy"}
      [] frag = "https://jenkins-x/job/y/1" -> {"jenkins"}
      [] frag = "https://ci.example/job/health-check/7" -> {"health", "ci"}
      [] frag = "stg" -> {}
      [] frag = "prod" -> {"pr"}
      [] frag = "bug-buster" -> {}
      [] frag = "health-api" -> {"health"}
      [] frag = "k8s-health-probe" -> {"k8s", "health", "probe", "pr"}
      [] frag = "jenkins-build" -> {"jenkins", "build"}
      [] frag = "unit-tests" -> {}
      [] frag = "health check did not complete successfully"
           -> {"health", "health check", "did not complete successfully",
               "health check did not complete successfully"}
      [] frag = "jenkins build failed for commit"
           -> {"jenkins", "build", "build failed", "jenkins build failed"}
      [] frag = "lgtm" -> {}
      [] frag = "deployment failed" -> {"deployment", "deploy", "deployment failed"}
      [] frag = "readiness probe failed" -> {"readiness", "probe", "pr"}
      [] frag = "image pull backoff" -> {"image", "pull"}
      [] OTHER -> {}

HasKw(text, kw) == \E frag \in text : kw \in Keywords(Lower(frag))

HasAny(text, kws) == \E kw \in kws : HasKw(text, kw)

\* kw in text, without lower-casing the text first
HasKwExact(text, kw) == \E frag \in text : kw \in Keywords(frag)

\* the fragments an f-string or ', '.join(...) puts into the text
Joined(items) == Range(items)

-----------------------------------------------------------------------------
(* The request *)

Prompts ==
    { {"This PR is stuck", "https://github.com/meesho/bug-buster-bot/pull/54"},
      {"Pods are crashlooping in stg-bug-buster namespace"},
      {"please grant me vault access"},
      {"jenkins build failed"},
      {"This PR is stuck", "https://github.com/meesho/bug-buster-bot/pull/54",
       "service is unhealthy"},
      {"jenkins build failed",
       "https://github.com/meesho/bug-buster-bot/pull/54"},
      {"jenkins build failed", "service is unhealthy",
       "https://github.com/meesho/bug-buster-bot/pull/54"} }

-----------------------------------------------------------------------------
(* The routing LLM.  A reply is an exception, an answer that is not a JSON *)
(* object (no JSON at all, or a JSON list), or a JSON object; a JSON value *)
(* is a string [t |-> "str", v |-> ...] or null [t |-> "null"].            *)

JStr(v) == [t |-> "str", v |-> v]
JNull == [t |-> "null"]

ClassifierReplies ==
    { [kind |-> "raise"],
      [kind |-> "not_object"] }
    \cup
    { [kind |-> "json", data |-> d] : d \in
        { [agent |-> JStr("github"), reasoning |-> JStr("PR URL present"),
           confidence |-> JStr("high")],
          [agent |-> JStr("kubernetes"), reasoning |-> JStr("namespace present"),
           confidence |-> JStr("certain")],
          [agent |-> JStr("jenkins"), reasoning |-> JStr("build URL present"),
           confidence |-> JStr("medium")],
          [agent |-> JStr("unavailable_agent"), reasoning |-> JStr("not DevOps"),
           confidence |-> JStr("high")],
          [agent |-> JStr("database"), reasoning |-> JStr("looks like SQL"),
           confidence |-> JStr("high")],
          [agent |-> JStr("summarizer"), reasoning |-> JStr("nothing to do"),
           confidence |-> JStr("medium")],
          [agent |-> JStr("github"), reasoning |-> JNull,
           confidence |-> JStr("high")],
          EmptyDict } }

ValidAgents == {"github", "kubernetes", "jenkins", "unavailable_agent"}

ConfidenceLevels == {"high", "medium", "low"}

NextAgentLiterals ==
    {"github", "kubernetes", "jenkins", "summarizer", "unavailable_agent"}

\* a fallback that tries the GitHub keywords before the other two groups
FallbackRoute_GitHubFirst(user_prompt) ==
    IF HasAny(user_prompt, {"github", "pr", "pull request"})
    THEN [task_type |-> "github",
          reasoning |-> "Content-based routing to GitHub",
          confidence |-> "low"]
    ELSE IF HasAny(user_prompt, {"pod", "namespace", "k8s", "kubernetes",
                                 "crash", "health", "deploy"})
    THEN [task_type |-> "kubernetes",
          reasoning |-> "Content-based routing to Kubernetes",
          confidence |-> "low"]
    ELSE IF HasAny(user_prompt, {"jenkins", "build", "ci/cd", "console"})
    THEN [task_type |-> "jenkins",
          reasoning |-> "Content-based routing to Jenkins",
          confidence |-> "low"]
    ELSE [task_type |-> "unavailable_agent",
          reasoning |-> "No specific DevOps patterns detected - routing to unavailable_agent",
          confidence |-> "low"]

\* "pod", "namespace", ... in user_prompt_lower (node.py, except branch)
FallbackRoute(user_prompt) ==
    IF HasAny(user_prompt, {"pod", "namespace", "k8s", "kubernetes", "crash",
                            "health", "deploy"})
    THEN [task_type |-> "kubernetes",
          reasoning |-> "Content-based routing to Kubernetes",
          confidence |-> "low"]
    ELSE IF HasAny(user_prompt, {"jenkins", "build", "ci/cd", "console"})
    THEN [task_type |-> "jenkins",
          reasoning |-> "Content-based routing to Jenkins",
          confidence |-> "low"]
    ELSE IF HasAny(user_prompt, {"github", "pr", "pull request"})
    THEN [task_type |-> "github",
          reasoning |-> "Content-based routing to GitHub",
          confidence |-> "low"]
    ELSE [task_type |-> "unavailable_agent",
          reasoning |-> "No specific DevOps patterns detected - routing to unavailable_agent",
          confidence |-> "low"]

\* confidence_raw is checked after the coercion branch, whatever it set.
ParsedConfidence(task_type_raw, confidence_raw) ==
    IF confidence_raw \in {JStr(c) : c \in ConfidenceLevels}
    THEN confidence_raw.v
    ELSE "low"

\* The try block of the initial routing on a JSON object: the three values
\* it leaves in task_type, reasoning (a JSON value) and confidence.
ParseRouting(data) ==
    LET task_type_raw  == Get(data, "agent", JStr("unavailable_agent"))
        reasoning_raw  == Get(data, "reasoning", JStr("No reasoning provided"))
        confidence_raw == Get(data, "confidence", JStr("low"))
        valid == task_type_raw \in {JStr(a) : a \in ValidAgents}
    IN  [task_type  |-> IF valid THEN task_type_raw.v ELSE "unavailable_agent",
         reasoning  |-> IF valid THEN reasoning_raw
                        ELSE JStr("Invalid agent 'unavailable_agent' - routing to unavailable_agent"),
         confidence |-> ParsedConfidence(task_type_raw, confidence_raw)]

\* What the initial routing computes before it builds the RoutingDecision.
InitialRouting(reply, user_prompt) ==
    IF reply.kind = "json"
    THEN ParseRouting(reply.data)
    ELSE LET f == FallbackRoute(user_prompt)
         IN  [task_type |-> f.task_type, reasoning |-> JStr(f.reasoning),
              confidence |-> f.confidence]

\* RoutingDecision(...) validates its fields: reasoning must be a string.
RoutingDecisionValid(r) ==
    /\ r.task_type \in NextAgentLiterals
    /\ r.reasoning.t = "str"
    /\ r.confidence \in ConfidenceLevels

RoutingDecision(next_agent, reasoning, confidence) ==
    [next_agent |-> next_agent, reasoning |-> reasoning,
     confidence |-> confidence, context_needed |-> <<>>]

-----------------------------------------------------------------------------
(* Workflow state (models/workflow.py) *)

AgentResponse(agent_name, status, findings, errors, next_actions) ==
    [agent_name |-> agent_name, status |-> status, findings |-> findings,
     errors |-> errors, next_actions |-> next_actions]

\* initial_state built by execute
InitialState(user_prompt) ==
    [user_prompt          |-> user_prompt,
     github_response      |-> None,
     kubernetes_response  |-> None,
     jenkins_response     |-> None,
     correlation_analysis |-> None,
     historical_solutions |-> None,
     routing_decisions    |-> <<>>,
     agent_memory         |-> [github_health_check_info |-> None],
     execution_history    |-> <<>>,
     agent_status         |-> EmptyDict,
     summary              |-> "",
     action_items         |-> <<>>,
     status               |-> "running",
     final_response       |-> None]

GraphNodes ==
    {"orchestrator", "github_agent", "kubernetes_agent", "jenkins_agent",
     "intelligent_summarizer", "unavailable_agent"}

TerminalNodes == {"intelligent_summarizer", "unavailable_agent"}

RecursionLimit == 15

NoCalls ==
    [classifier |-> 0, correlation |-> 0, retriever |-> 0, synthesis |-> 0]

NoInputs ==
    [classifier |-> None, github |-> None, kubernetes |-> None,
     jenkins |-> None, correlation |-> None, retriever |-> None,
     synthesis |-> None]

Called(c, name) == [c EXCEPT ![name] = @ + 1]

-----------------------------------------------------------------------------
(* Routing functions of the graph (core/routing.py) *)

\* intelligent_routing_logic: the conditional edge out of the orchestrator
intelligent_routing_logic(st) ==
    IF st.routing_decisions # <<>>
    THEN st.routing_decisions[Len(st.routing_decisions)].next_agent
    ELSE "github"

\* The first item of a list that matches either keyword list decides (the
\* loops break at the first match): "k8s", "jenkins" or "none".
RECURSIVE FirstMatch(_, _, _)
FirstMatch(texts, k8s_kws, jenkins_kws) ==
    IF texts = <<>> THEN "none"
    ELSE IF HasAny(Head(texts), k8s_kws) THEN "k8s"
    ELSE IF HasAny(Head(texts), jenkins_kws) THEN "jenkins"
    ELSE FirstMatch(Tail(texts), k8s_kws, jenkins_kws)

CheckNames(checks) == [i \in DOMAIN checks |-> {Get(checks[i], "name", "")}]

CommentBodies(comments) ==
    [i \in DOMAIN comments |-> {Get(comments[i], "body", "")}]

IssueTexts(issues) == [i \in DOMAIN issues |-> {issues[i]}]

\* The two flags post_github_routing_fixed computes from the findings and
\* the prompt.
GitHubFailureFlags(findings, user_prompt) ==
    LET analysis == Get(findings, "analysis", EmptyDict)
        detailed_analysis == Get(analysis, "detailed_analysis", EmptyDict)
        ci_analysis == Get(detailed_analysis, "ci_cd", EmptyDict)
        ci == Get(ci_analysis, "has_failures", FALSE)
                \/ Get(ci_analysis, "status", "") = "Failing"
        checks == FirstMatch(
                    CheckNames(Get(ci_analysis, "failing_checks", <<>>)),
                    {"health", "deployment", "k8s", "kubernetes", "probe"},
                    {"jenkins", "build", "ci/cd", "continuous-integration"})
        issue_comments == Get(detailed_analysis, "issue_comments", EmptyDict)
        comments == FirstMatch(
                    CommentBodies(Get(issue_comments, "bot_comments", <<>>)),
                    {"health check", "healthcheck", "probe", "deployment", "k8s",
                     "kubernetes", "did not complete successfully"},
                    {"jenkins", "build failed", "ci workflow",
                     "waitforjenkinsjobcompletionactivity"})
        pr_health == Get(findings, "pr_health", "")
        issues == IF pr_health \in {"Has Issues", "Needs Attention", "Failing"}
                  THEN FirstMatch(
                         IssueTexts(Get(findings, "issues", <<>>)),
                         {"ci/cd", "build", "deployment", "health", "failing",
                          "k8s", "kubernetes", "probe"},
                         {"jenkins", "build", "ci"})
                  ELSE "none"
        prompt == IF HasAny(user_prompt, {"health", "degraded", "unhealthy",
                                          "probe", "crash", "restart"})
                  THEN "k8s"
                  ELSE IF HasAny(user_prompt, {"jenkins", "build", "ci/cd",
                                               "pipeline"})
                  THEN "jenkins" ELSE "none"
        analysis_text == Get(findings, "analysis_text", {})
        text == IF HasAny(analysis_text,
                          {"health check did not complete successfully",
                           "health check failure", "deployment failed",
                           "probe failure"})
                THEN "k8s"
                ELSE IF HasAny(analysis_text,
                               {"jenkins build failed",
                                "ci workflow did not complete", "build failed"})
                THEN "jenkins" ELSE "none"
        all == {checks, comments, issues, prompt, text}
    IN  [has_ci_cd_failures   |-> ci \/ "k8s" \in all,
         has_jenkins_failures |-> "jenkins" \in all]

\* a routing that looks at the findings only, never at the user prompt
post_github_routing_fixed_IgnoresPrompt(st) ==
    IF st.github_response = None THEN "summarizer"
    ELSE LET flags == GitHubFailureFlags(st.github_response.findings, {})
         IN  IF flags.has_jenkins_failures /\ st.jenkins_response = None
             THEN "jenkins"
             ELSE IF flags.has_ci_cd_failures /\ st.kubernetes_response = None
             THEN "kubernetes"
             ELSE "summarizer"

post_github_routing_fixed(st) ==
    IF st.github_response = None THEN "summarizer"
    ELSE LET findings == st.github_response.findings
             flags == GitHubFailureFlags(findings, st.user_prompt)
         IN  IF Get(findings, "status", "") = "route_to_k8s" THEN "kubernetes"
             ELSE IF Get(findings, "status", "") = "route_to_jenkins"
             THEN "jenkins"
             ELSE IF flags.has_jenkins_failures /\ st.jenkins_response = None
             THEN "jenkins"
             ELSE IF flags.has_ci_cd_failures /\ st.kubernetes_response = None
             THEN "kubernetes"
             ELSE "summarizer"

\* a routing that goes to GitHub whether or not GitHub has executed
post_kubernetes_routing_fixed_ForgetsGitHubRan(st) ==
    IF /\ st.kubernetes_response # None
       /\ Get(st.kubernetes_response.findings, "root_causes", <<>>) # <<>>
       /\ HasAny(st.user_prompt, {"pr", "pull request", "github.com"})
    THEN "github"
    ELSE "summarizer"

\* a routing that never goes back to GitHub for context
post_kubernetes_routing_fixed_NeverGitHub(st) == "summarizer"

post_kubernetes_routing_fixed(st) ==
    IF /\ st.kubernetes_response # None
       /\ Get(st.kubernetes_response.findings, "root_causes", <<>>) # <<>>
       /\ st.github_response = None
       /\ HasAny(st.user_prompt, {"pr", "pull request", "github.com"})
    THEN "github"
    ELSE "summarizer"

\* a routing that chains to Kubernetes for build failures only
post_jenkins_routing_fixed_BuildOnly(st) ==
    IF /\ st.jenkins_response # None
       /\ Truthy(Get(st.jenkins_response.findings, "analysis", EmptyDict))
       /\ Get(st.jenkins_response.findings.analysis, "failure_type", "")
             = "build_failure"
    THEN "kubernetes"
    ELSE "summarizer"

post_jenkins_routing_fixed(st) ==
    IF /\ st.jenkins_response # None
       /\ Truthy(Get(st.jenkins_response.findings, "analysis", EmptyDict))
       /\ Get(st.jenkins_response.findings.analysis, "failure_type", "")
             \in {"build_failure", "test_failure"}
    THEN "kubernetes"
    ELSE "summarizer"

\* a graph whose edge map sends the unsupported route on to the summarizer
NodeOf_UnavailableToSummarizer(route) ==
    CASE route = "github" -> "github_agent"
      [] route = "kubernetes" -> "kubernetes_agent"
      [] route = "jenkins" -> "jenkins_agent"
      [] route = "summarizer" -> "intelligent_summarizer"
      [] route = "unavailable_agent" -> "intelligent_summarizer"
      [] route = "orchestrator" -> "orchestrator"

\* the node a routing result names (the edge maps of build_workflow)
NodeOf(route) ==
    CASE route = "github" -> "github_agent"
      [] route = "kubernetes" -> "kubernetes_agent"
      [] route = "jenkins" -> "jenkins_agent"
      [] route = "summarizer" -> "intelligent_summarizer"
      [] route = "unavailable_agent" -> "unavailable_agent"
      [] route = "orchestrator" -> "orchestrator"

-----------------------------------------------------------------------------
(* The graph executor: one node per step, at most RecursionLimit steps     *)
(* (workflow_app.ainvoke(..., config={"recursion_limit": 15})).            *)

Goto(next) ==
    IF next # "END" /\ Len(trace) + 1 >= RecursionLimit THEN "raised" ELSE next

-----------------------------------------------------------------------------
(* orchestrator_node (core/node.py) *)

\* the re-routing branch: routing_decisions is not empty
ReRoutingDecision(st) ==
    LET github_response == st.github_response
        kubernetes_response == st.kubernetes_response
    IN  IF github_response # None /\ kubernetes_response = None
        THEN LET github_findings == github_response.findings
                 analysis == Get(github_findings, "analysis", EmptyDict)
                 detailed_analysis == Get(analysis, "detailed_analysis", EmptyDict)
                 ci_analysis == Get(detailed_analysis, "ci_cd", EmptyDict)
                 issue_comments ==
                     Get(detailed_analysis, "issue_comments", EmptyDict)
                 has_real_issues ==
                     \/ Get(ci_analysis, "has_failures", FALSE)
                     \/ Get(ci_analysis, "status", "") = "Failing"
                     \/ FirstMatch(
                          CheckNames(Get(ci_analysis, "failing_checks", <<>>)),
                          {"health", "deployment", "k8s", "kubernetes", "probe"},
                          {}) = "k8s"
                     \/ FirstMatch(
                          CommentBodies(Get(issue_comments, "bot_comments", <<>>)),
                          {"health check", "healthcheck", "probe", "deployment",
                           "k8s", "kubernetes"}, {}) = "k8s"
                     \/ Get(github_findings, "pr_health", "")
                          \in {"Has Issues", "Needs Attention", "Failing"}
             IN  RoutingDecision(
                   IF has_real_issues THEN "kubernetes" ELSE "summarizer",
                   "re-routing", "high")
        ELSE IF /\ kubernetes_response # None /\ github_response = None
                /\ HasAny(st.user_prompt, {"pr", "github"})
                /\ Get(kubernetes_response.findings, "root_causes", <<>>) # <<>>
        THEN RoutingDecision("github", "re-routing", "high")
        ELSE RoutingDecision("summarizer", "re-routing", "high")

\* the state the initial branch returns, given what the routing computed
InitialRoutingState(st, r) ==
    LET routing_decision ==
            RoutingDecision(r.task_type, r.reasoning.v, r.confidence)
    IN  [st EXCEPT
           !.routing_decisions = <<routing_decision>>,
           !.agent_memory = [github_health_check_info |-> None],
           !.execution_history =
               << [step |-> 1, action |-> "initial_intelligent_routing",
                   agent |-> "orchestrator",
                   decision |-> routing_decision.next_agent] >>,
           !.agent_status = [github |-> "not_executed",
                             kubernetes |-> "not_executed"]]

ReRoutingState(st) ==
    LET routing_decision == ReRoutingDecision(st)
    IN  [st EXCEPT
           !.routing_decisions = Append(@, routing_decision),
           !.execution_history =
               Append(@, [step |-> Len(@) + 1,
                          action |-> "intelligent_re_routing",
                          agent |-> "orchestrator",
                          decision |-> routing_decision.next_agent])]

OrchestratorNode ==
    /\ pc = "orchestrator"
    /\ trace' = Append(trace, "orchestrator")
    /\ IF state.routing_decisions = <<>>
       THEN \E reply \in ClassifierReplies :
              LET r == InitialRouting(reply, state.user_prompt)
              IN  /\ calls' = Called(calls, "classifier")
                  /\ inputs' = [inputs EXCEPT !.classifier = reply]
                  /\ IF RoutingDecisionValid(r)
                     THEN /\ state' = InitialRoutingState(state, r)
                          /\ pc' = Goto(NodeOf(intelligent_routing_logic(state')))
                     ELSE \* RoutingDecision(...) raises outside the try block
                          /\ state' = state
                          /\ pc' = "raised"
       ELSE /\ state' = ReRoutingState(state)
            /\ pc' = Goto(NodeOf(intelligent_routing_logic(state')))
            /\ UNCHANGED <<calls, inputs>>
    /\ UNCHANGED <<services, query, result, api_response, k8s_case>>

-----------------------------------------------------------------------------
(* The GitHub analyzer (agents/github_agent.py, GitHubAgent.analyze) as    *)
(* the node sees it: it raises, or returns a findings dict.                *)

CiFindings(ci_cd) ==
    [status |-> "success",
     analysis |-> [detailed_analysis |-> [ci_cd |-> ci_cd]],
     recommendations |-> <<"Fix the failing checks">>]

GitHubAnalyses ==
    { [status |-> "route_to_k8s",
       health_check_info |-> [environment |-> "prod",
                              applications |-> <<"health-api", "bug-buster">>,
                              failures |-> <<"GetArgoAppSyncStatusActivity">>]],
      [status |-> "route_to_jenkins",
       jenkins_failure_info |->
           [jenkins_urls |-> <<"https://jenkins-x/job/y/1">>]],
      [status |-> "route_to_jenkins",
       jenkins_failure_info |->
           [jenkins_urls |-> <<"https://jenkins-x/job/y/1",
                               "https://ci.example/job/health-check/7">>]],
      [status |-> "success",
       problem_identified |-> "PR has merge conflicts",
       root_cause |-> "Branch is behind main",
       recommendations |-> <<"Rebase the branch">>],
      [status |-> "failed",
       error |-> "Could not extract GitHub URL from request"],
      [status |-> "success",
       failed_checks |-> <<[name |-> "k8s-health-probe",
                            details |-> "probe timed out"]>>],
      CiFindings([has_failures |-> TRUE, status |-> "Failing",
                  failing_checks |-> <<[name |-> "unit-tests"]>>]),
      CiFindings([has_failures |-> FALSE, status |-> "Passing",
                  failing_checks |-> <<[name |-> "jenkins-build"],
                                       [name |-> "k8s-health-probe"]>>]),
      CiFindings([has_failures |-> FALSE, status |-> "Passing",
                  failing_checks |-> <<[name |-> "k8s-health-probe"],
                                       [name |-> "jenkins-build"]>>]),
      CiFindings([has_failures |-> FALSE, status |-> "Passing",
                  failing_checks |-> <<[name |-> "k8s-health-probe"]>>]),
      [status |-> "success",
       analysis |-> [detailed_analysis |->
           [issue_comments |-> [bot_comments |->
               <<[body |-> "lgtm"],
                 [body |-> "jenkins build failed for commit"]>>]]]],
      [status |-> "success",
       pr_health |-> "Has Issues",
       issues |-> <<"deployment failed">>,
       analysis_text |-> {"health check did not complete successfully"}],
      EmptyDict }

GitHubReplies ==
    {[kind |-> "raise", message |-> "GitHub MCP server connection refused"]}
    \cup
    {[kind |-> "return", analysis |-> a] : a \in GitHubAnalyses}

\* the prompts the node writes when the analyzer escalates
K8sPrompt(environment, applications) ==
    {"Health check failures detected in GitHub PR for environment: ..., applications: .... Please analyze the Kubernetes cluster for these applications.",
     environment} \cup Joined(applications)

JenkinsPrompt(jenkins_urls) ==
    {"Jenkins build failures detected in GitHub PR. Please analyze the following Jenkins build URLs: ..."}
    \cup Joined(jenkins_urls)

\* an entry numbered by the length before the append
HistoryEntry_StepNotAdvanced(st, action, agent, status) ==
    Append(st.execution_history,
           [step |-> Len(st.execution_history), action |-> action,
            agent |-> agent, status |-> status])

HistoryEntry(st, action, agent, status) ==
    Append(st.execution_history,
           [step |-> Len(st.execution_history) + 1, action |-> action,
            agent |-> agent, status |-> status])

\* a node that marks GitHub completed although it only handed the request on
EscalatedStatus_Completed(target) == "completed"

EscalatedStatus(target) == "routing_to_" \o target

\* github_agent_node: the state it returns for each reply of the analyzer
GitHubNodeState(st, reply) ==
    IF reply.kind = "raise"
    THEN [st EXCEPT
            !.github_response =
                AgentResponse("GitHub Agent", "failed", EmptyDict,
                              <<[source |-> "github_agent",
                                 error |-> reply.message]>>,
                              <<"Check GitHub connectivity", "Verify PR URL">>),
            !.agent_status = Put(@, "github", "failed")]
    ELSE LET github_analysis == reply.analysis
             status == Get(github_analysis, "status", "None")
         IN
         IF status = "route_to_k8s"
         THEN LET health_check_info ==
                      Get(github_analysis, "health_check_info", EmptyDict)
                  environment == Get(health_check_info, "environment", "stg")
                  applications == Get(health_check_info, "applications", <<>>)
              IN  [st EXCEPT
                     !.user_prompt = K8sPrompt(environment, applications),
                     !.github_response =
                         AgentResponse("GitHub Agent", "routing_to_k8s",
                             [health_check_info |-> health_check_info], <<>>,
                             <<"Routing to Kubernetes agent for health check analysis">>),
                     !.agent_memory.github_health_check_info = health_check_info,
                     !.execution_history =
                         HistoryEntry(st, "github_health_check_detection",
                                      "github", "routing_to_k8s"),
                     !.agent_status = Put(@, "github", EscalatedStatus("k8s"))]
         ELSE IF status = "route_to_jenkins"
         THEN LET jenkins_failure_info ==
                      Get(github_analysis, "jenkins_failure_info", EmptyDict)
                  jenkins_urls == Get(jenkins_failure_info, "jenkins_urls", <<>>)
              IN  [st EXCEPT
                     !.user_prompt = JenkinsPrompt(jenkins_urls),
                     !.github_response =
                         AgentResponse("GitHub Agent", "routing_to_jenkins",
                             [jenkins_failure_info |-> jenkins_failure_info], <<>>,
                             <<"Routing to Jenkins agent for build failure analysis">>),
                     !.execution_history =
                         HistoryEntry(st, "github_jenkins_failure_detection",
                                      "github", "routing_to_jenkins"),
                     !.agent_status = Put(@, "github", EscalatedStatus("jenkins"))]
         ELSE LET response_status == Get(github_analysis, "status", "success")
              IN  [st EXCEPT
                     !.github_response =
                         AgentResponse("GitHub Agent", response_status,
                             github_analysis,
                             Get(github_analysis, "errors", <<>>),
                             Get(github_analysis, "recommendations", <<>>)),
                     !.execution_history =
                         HistoryEntry(st, "github_pr_analysis", "github",
                                      response_status),
                     !.agent_status =
                         Put(@, "github",
                             IF response_status = "success"
                             THEN "completed" ELSE "failed")]

GitHubNode ==
    /\ pc = "github_agent"
    /\ trace' = Append(trace, "github_agent")
    /\ \E reply \in GitHubReplies :
         /\ state' = GitHubNodeState(state, reply)
         /\ inputs' = [inputs EXCEPT !.github = reply]
    /\ pc' = Goto(NodeOf(post_github_routing_fixed(state')))
    /\ UNCHANGED <<services, query, result, api_response, calls, k8s_case>>

-----------------------------------------------------------------------------
(* _combine_k8s_findings (core/node.py) *)

HasIntelligentAnalysis(findings) ==
    Truthy(Get(findings, "intelligent_analysis", EmptyDict))

HasUnhealthyPods(findings) == Get(findings, "unhealthy_pods", <<>>) # <<>>

\* a loop that ignores the explicit problem_identified/root_cause strings
HasExplicitProblem_Ignored(findings) == FALSE

HasExplicitProblem(findings) ==
    \/ Get(findings, "problem_identified", "") # ""
    \/ Get(findings, "root_cause", "") # ""

NonEmptyRecords(all_findings) == SelectSeq(all_findings, LAMBDA f : DOMAIN f # {})

\* a loop in which the first record with any issue is kept, whatever follows
RECURSIVE MostDetailedFindings_FirstWins(_, _)
MostDetailedFindings_FirstWins(all_findings, chosen) ==
    IF all_findings = <<>> THEN chosen
    ELSE LET findings == Head(all_findings)
             next == IF chosen = None /\ DOMAIN findings # {}
                        /\ (HasIntelligentAnalysis(findings)
                            \/ HasUnhealthyPods(findings)
                            \/ HasExplicitProblem(findings))
                     THEN findings ELSE chosen
         IN  MostDetailedFindings_FirstWins(Tail(all_findings), next)

\* The loop's choice of most_detailed_findings: a record with an
\* intelligent_analysis always replaces the choice; a record with unhealthy
\* pods or an explicit problem is taken only while nothing is chosen.
RECURSIVE MostDetailedFindings(_, _)
MostDetailedFindings(all_findings, chosen) ==
    IF all_findings = <<>> THEN chosen
    ELSE LET findings == Head(all_findings)
             next == IF DOMAIN findings = {} THEN chosen
                     ELSE IF HasIntelligentAnalysis(findings) THEN findings
                     ELSE IF HasUnhealthyPods(findings) /\ chosen = None
                     THEN findings
                     ELSE IF ~HasUnhealthyPods(findings)
                             /\ HasExplicitProblem(findings) /\ chosen = None
                     THEN findings
                     ELSE chosen
         IN  MostDetailedFindings(Tail(all_findings), next)

Collect(all_findings, key) ==
    Concat([i \in DOMAIN all_findings |-> Get(all_findings[i], key, <<>>)])

NoRagSolution ==
    [rag_solution |-> "None", similarity_score |-> 0, jira_id |-> "None",
     message |-> "No RAG solution available"]

GenericK8sSolution ==
    <<"Review pod status and events", "Check application logs",
      "Verify configuration">>

SolutionCap == 5

RECURSIVE JoinWith(_, _)
JoinWith(parts, sep) ==
    IF parts = <<>> THEN ""
    ELSE IF Len(parts) = 1 THEN parts[1]
    ELSE parts[1] \o sep \o JoinWith(Tail(parts), sep)

CombinedSummary(most_detailed, problem_identified, unhealthy, root_causes, events) ==
    IF most_detailed # None /\ HasIntelligentAnalysis(most_detailed)
    THEN IF Get(most_detailed.intelligent_analysis, "problem_summary", "") # ""
         THEN most_detailed.intelligent_analysis.problem_summary
         ELSE "AI Analysis: " \o problem_identified
    ELSE LET summary_parts ==
                 (IF unhealthy # <<>>
                  THEN <<"Found " \o ToString(Len(unhealthy)) \o " unhealthy pods">>
                  ELSE <<>>)
              \o (IF root_causes # <<>>
                  THEN <<"Identified " \o ToString(Len(root_causes)) \o " root causes">>
                  ELSE <<>>)
              \o (IF events # <<>>
                  THEN <<"Analyzed " \o ToString(Len(events)) \o " events">>
                  ELSE <<>>)
         IN  IF summary_parts # <<>> THEN JoinWith(summary_parts, "; ")
             ELSE "All applications are running normally"

combine_k8s_findings(all_findings_in, namespace_info) ==
    IF all_findings_in = <<>>
    THEN [status |-> "success",
          problem_identified |-> "No issues found in any namespace",
          root_cause |-> "All namespaces are healthy",
          solution |-> <<>>,
          summary |-> "All applications are running normally"]
    ELSE
    LET all_findings == NonEmptyRecords(all_findings_in)
        combined_events == Collect(all_findings, "events")
        combined_unhealthy_pods == Collect(all_findings, "unhealthy_pods")
        combined_healthy_pods == Collect(all_findings, "healthy_pods")
        combined_root_causes == Collect(all_findings, "root_causes")
        combined_immediate_actions == Collect(all_findings, "immediate_actions")
        combined_solutions == Collect(all_findings, "solution")
        most_detailed_findings == MostDetailedFindings(all_findings_in, None)
        has_issues ==
            \E i \in DOMAIN all_findings :
                \/ HasIntelligentAnalysis(all_findings[i])
                \/ HasUnhealthyPods(all_findings[i])
                \/ HasExplicitProblem(all_findings[i])
        issues_found ==
            has_issues \/ combined_unhealthy_pods # <<>>
                       \/ combined_root_causes # <<>>
        n == ToString(Len(all_findings_in))
        texts ==
            IF ~issues_found
            THEN [problem_identified |-> "All namespaces are healthy",
                  root_cause |-> "No issues detected"]
            ELSE IF most_detailed_findings = None
            THEN [problem_identified |->
                      "Issues detected but no detailed analysis available",
                  root_cause |->
                      "Analysis indicates problems across " \o n \o " namespaces"]
            ELSE IF HasIntelligentAnalysis(most_detailed_findings)
            THEN LET ia == most_detailed_findings.intelligent_analysis
                     p == Get(ia, "problem_summary", "")
                     r == Get(ia, "root_cause", "")
                 IN  [problem_identified |->
                          IF p # "" THEN p ELSE
                          "Intelligent analysis available but problem summary missing",
                      root_cause |->
                          IF r # "" THEN r ELSE
                          "Intelligent analysis available but root cause missing"]
            ELSE LET p == Get(most_detailed_findings, "problem_identified", "")
                     r == Get(most_detailed_findings, "root_cause", "")
                 IN  IF p = "" /\ r = ""
                     THEN [problem_identified |->
                               "Issues detected in namespace analysis",
                           root_cause |->
                               "Multiple indicators suggest problems in " \o n
                               \o " namespaces"]
                     ELSE [problem_identified |-> p, root_cause |-> r]
        final_solution ==
            IF combined_solutions # <<>> THEN Take(combined_solutions, SolutionCap)
            ELSE IF combined_immediate_actions # <<>>
            THEN Take(combined_immediate_actions, SolutionCap)
            ELSE GenericK8sSolution
        base ==
            [status |-> IF issues_found THEN "issues_found" ELSE "healthy",
             problem_identified |-> texts.problem_identified,
             root_cause |-> texts.root_cause,
             solution |-> final_solution,
             summary |-> CombinedSummary(most_detailed_findings,
                             texts.problem_identified, combined_unhealthy_pods,
                             combined_root_causes, combined_events),
             events |-> combined_events,
             unhealthy_pods |-> combined_unhealthy_pods,
             healthy_pods |-> combined_healthy_pods,
             root_causes |-> combined_root_causes,
             immediate_actions |-> combined_immediate_actions,
             namespaces_analyzed |-> Get(namespace_info, "namespaces", <<>>),
             environment |-> Get(namespace_info, "environment", "unknown"),
             business_unit |-> Get(namespace_info, "business_unit", "unknown"),
             rag_solution |->
                 IF most_detailed_findings # None
                    /\ Truthy(Get(most_detailed_findings, "rag_solution", EmptyDict))
                 THEN most_detailed_findings.rag_solution
                 ELSE NoRagSolution]
    IN  IF most_detailed_findings # None
           /\ HasIntelligentAnalysis(most_detailed_findings)
        THEN Put(base, "intelligent_analysis",
                 most_detailed_findings.intelligent_analysis)
        ELSE base

-----------------------------------------------------------------------------
(* kubernetes_agent_node (core/node.py) and its collaborators: the         *)
(* namespace resolver and the debugger, one call per namespace.            *)

NamespaceNames == <<"stg-bug-buster", "stg-health-api", "stg-payments">>

\* namespace_detector.extract_namespace_info_from_user_input
ResolverReplies ==
    {[kind |-> "raise", message |-> "MySQL lookup failed"]} \cup
    {[kind |-> "return",
      info |-> [environment |-> "stg", business_unit |-> "central",
                namespaces |-> SubSeq(NamespaceNames, 1, k)]] :
        k \in 0..MaxNamespaces}

\* debug_application_health: one record per namespace
HealthyRecord ==
    [healthy_pods |-> <<[name |-> "api-0"]>>, unhealthy_pods |-> <<>>,
     events |-> <<>>, root_causes |-> <<>>, immediate_actions |-> <<>>]

UnhealthyRecord ==
    [healthy_pods |-> <<>>, unhealthy_pods |-> <<[name |-> "api-1"]>>,
     events |-> <<"BackOff">>, root_causes |-> <<"readiness probe failed">>,
     immediate_actions |-> <<"Restart the pod", "Check probe configuration">>]

AnalysedRecord ==
    [healthy_pods |-> <<>>, unhealthy_pods |-> <<[name |-> "api-2"]>>,
     events |-> <<"OOMKilled">>, root_causes |-> <<"image pull backoff">>,
     immediate_actions |-> <<"Raise the memory limit">>,
     solution |-> <<"Set resources.limits.memory to 1Gi">>,
     intelligent_analysis |-> [problem_summary |-> "Pod is OOMKilled",
                               root_cause |-> "Memory limit too low"],
     rag_solution |-> [rag_solution |-> "Raise limits", similarity_score |-> 1,
                       jira_id |-> "OPS-1", message |-> "found"]]

K8sDebugRecords == {UnhealthyRecord, AnalysedRecord, EmptyDict}

FailedK8sResponse(error, next_actions) ==
    AgentResponse("Kubernetes Agent", "failed", EmptyDict,
                  <<[source |-> "kubernetes_agent", error |-> error]>>,
                  next_actions)

\* a handler that returns a fresh state instead of **state: GitHub's and
\* Jenkins' responses are lost
K8sNodeFailed_ForgetsOthers(st, error, next_actions) ==
    [st EXCEPT
       !.kubernetes_response = FailedK8sResponse(error, next_actions),
       !.github_response = None,
       !.jenkins_response = None,
       !.agent_status = Put(@, "kubernetes", "failed")]

\* a handler that answers the caller itself when the agent failed
K8sNodeFailed_WritesFinalResponse(st, error, next_actions) ==
    [st EXCEPT
       !.kubernetes_response = FailedK8sResponse(error, next_actions),
       !.agent_status = Put(@, "kubernetes", "failed"),
       !.final_response = [status |-> "failed", root_cause |-> error]]

K8sNodeFailed(st, error, next_actions) ==
    [st EXCEPT
       !.kubernetes_response = FailedK8sResponse(error, next_actions),
       !.agent_status = Put(@, "kubernetes", "failed")]

\* next_actions of the node's exception handler
K8sFailureActions == <<"Check Kubernetes connection", "Verify cluster access">>

\* debug_application_health raising for one of the namespaces
DebuggerError == [kind |-> "raise", message |-> "cluster unreachable"]

\* namespace_info built from the health check info GitHub handed over
EscalatedNamespaceInfo(github_health_check_info) ==
    LET environment == Get(github_health_check_info, "environment", "stg")
        applications == Get(github_health_check_info, "applications", <<>>)
    IN  [environment |-> environment,
         applications |-> applications,
         namespaces |-> [i \in DOMAIN applications |->
                            environment \o "-" \o applications[i]],
         business_unit |-> "None"]

\* the state the node returns once namespace_info is known and every
\* debugger call returned (records: one per namespace)
K8sNodeAnalysed(st, namespace_info, records) ==
    LET namespaces == Get(namespace_info, "namespaces", <<>>)
        all_findings == NonEmptyRecords(records)
        kubernetes_response ==
            IF namespaces = <<>>
            THEN FailedK8sResponse(
                   "Could not determine target namespace from request",
                   <<"Provide application name and environment (e.g., 'stg-app-name')",
                     "Specify the Kubernetes namespace to investigate">>)
            ELSE AgentResponse("Kubernetes Agent", "success",
                   combine_k8s_findings(all_findings, namespace_info),
                   Collect(all_findings, "errors"),
                   Collect(all_findings, "immediate_actions"))
    IN  [st EXCEPT
           !.kubernetes_response = kubernetes_response,
           !.execution_history =
               HistoryEntry(st, "intelligent_kubernetes_debugging",
                            "kubernetes", kubernetes_response.status),
           !.agent_status =
               Put(@, "kubernetes",
                   IF kubernetes_response.status = "success"
                   THEN "completed" ELSE "failed")]

KubernetesNode ==
    /\ pc = "kubernetes_agent"
    /\ trace' = Append(trace, "kubernetes_agent")
    /\ IF ~services.kubernetes_tools
       THEN /\ state' = K8sNodeFailed(state, "Kubernetes tools not available",
                                      <<"Initialize Kubernetes tools">>)
            /\ inputs' = [inputs EXCEPT !.kubernetes = [kind |-> "unavailable"]]
       ELSE \E resolved \in
                IF Truthy(state.agent_memory.github_health_check_info)
                THEN {[kind |-> "raise", message |-> "MySQL lookup failed"],
                      [kind |-> "return",
                       info |-> EscalatedNamespaceInfo(
                                  state.agent_memory.github_health_check_info)]}
                ELSE ResolverReplies :
              IF resolved.kind = "raise"
              THEN /\ state' = K8sNodeFailed(state, resolved.message,
                                  K8sFailureActions)
                   /\ inputs' = [inputs EXCEPT !.kubernetes = resolved]
              ELSE \/ /\ \E records \in
                             [DOMAIN resolved.info.namespaces -> K8sDebugRecords] :
                           state' = K8sNodeAnalysed(state, resolved.info, records)
                      /\ inputs' = [inputs EXCEPT
                                      !.kubernetes = [kind |-> "return"]]
                   \/ /\ resolved.info.namespaces # <<>>
                      /\ state' = K8sNodeFailed(state, DebuggerError.message,
                                     K8sFailureActions)
                      /\ inputs' = [inputs EXCEPT !.kubernetes = DebuggerError]
    /\ pc' = Goto(NodeOf(post_kubernetes_routing_fixed(state')))
    /\ UNCHANGED <<services, query, result, api_response, calls, k8s_case>>

-----------------------------------------------------------------------------
(* jenkins_agent_node (core/node.py) and the Jenkins analyzer *)

JenkinsAnalyses ==
    { [status |-> "success",
       analysis |-> [failure_type |-> "build_failure",
                     root_cause |-> "Compilation error"],
       recommendations |-> <<"Fix the compilation error">>],
      [status |-> "success",
       analysis |-> [failure_type |-> "test_failure",
                     root_cause |-> "Unit test regression"],
       recommendations |-> <<"Fix the failing test">>],
      [status |-> "success",
       analysis |-> [failure_type |-> "infrastructure",
                     root_cause |-> "Agent offline"],
       recommendations |-> <<"Restart the build agent">>],
      [status |-> "failed", error |-> "Could not extract Jenkins URL"],
      EmptyDict }

JenkinsReplies ==
    {[kind |-> "raise", message |-> "Jenkins request timed out"]} \cup
    {[kind |-> "return", analysis |-> a] : a \in JenkinsAnalyses}

\* the node marks Jenkins completed whatever the analysis said
JenkinsNodeState_AlwaysCompleted(st, reply) ==
    [st EXCEPT
       !.jenkins_response =
           IF reply.kind = "raise"
           THEN AgentResponse("Jenkins Agent", "failed", EmptyDict,
                              <<[source |-> "jenkins_agent",
                                 error |-> reply.message]>>,
                              <<"Check Jenkins connectivity", "Verify build URL">>)
           ELSE AgentResponse("Jenkins Agent",
                              Get(reply.analysis, "status", "success"),
                              reply.analysis,
                              Get(reply.analysis, "errors", <<>>),
                              Get(reply.analysis, "recommendations", <<>>)),
       !.agent_status = Put(@, "jenkins", "completed")]

JenkinsNodeState(st, reply) ==
    IF reply.kind = "raise"
    THEN [st EXCEPT
            !.jenkins_response =
                AgentResponse("Jenkins Agent", "failed", EmptyDict,
                              <<[source |-> "jenkins_agent",
                                 error |-> reply.message]>>,
                              <<"Check Jenkins connectivity", "Verify build URL">>),
            !.agent_status = Put(@, "jenkins", "failed")]
    ELSE LET jenkins_analysis == reply.analysis
             response_status == Get(jenkins_analysis, "status", "success")
         IN  [st EXCEPT
                !.jenkins_response =
                    AgentResponse("Jenkins Agent", response_status,
                        jenkins_analysis,
                        Get(jenkins_analysis, "errors", <<>>),
                        Get(jenkins_analysis, "recommendations", <<>>)),
                !.execution_history =
                    HistoryEntry(st, "jenkins_build_analysis", "jenkins",
                                 response_status),
                !.agent_status =
                    Put(@, "jenkins",
                        IF response_status = "success"
                        THEN "completed" ELSE "failed")]

JenkinsNode ==
    /\ pc = "jenkins_agent"
    /\ trace' = Append(trace, "jenkins_agent")
    /\ \E reply \in JenkinsReplies :
         /\ state' = JenkinsNodeState(state, reply)
         /\ inputs' = [inputs EXCEPT !.jenkins = reply]
    /\ pc' = Goto(NodeOf(post_jenkins_routing_fixed(state')))
    /\ UNCHANGED <<services, query, result, api_response, calls, k8s_case>>

-----------------------------------------------------------------------------
(* IntelligentCorrelationEngine (core/correlation.py) *)

\* what the correlation LLM answers: an exception, an answer that is not a
\* JSON object (empty, no JSON at all, a JSON list), or a JSON object
CorrelationReplies ==
    { [kind |-> "raise"], [kind |-> "not_object"],
      [kind |-> "json",
       data |-> [correlation_found |-> TRUE,
                 correlation_type |-> JStr("health_probe"),
                 correlation_confidence |-> JStr("high"),
                 actionable_solution |-> "Fix the readiness probe"]],
      [kind |-> "json",
       data |-> [correlation_found |-> TRUE,
                 correlation_type |-> JNull,
                 correlation_confidence |-> JStr("high")]],
      [kind |-> "json",
       data |-> [correlation_found |-> FALSE,
                 correlation_type |-> JStr("other"),
                 correlation_confidence |-> JStr("low")]] }

FallbackCorrelation(found, chain, cause, confidence, solution, type) ==
    [correlation_found |-> found, root_cause_chain |-> chain,
     primary_root_cause |-> cause,
     correlation_confidence |-> JStr(confidence),
     actionable_solution |-> solution, correlation_type |-> JStr(type)]

\* _fallback_correlation; github_findings and k8s_findings are dicts here
fallback_correlation(github_findings, k8s_findings) ==
    LET failed_checks == Get(github_findings, "failed_checks", <<>>)
        health_issues == Get(github_findings, "health_issues", <<>>)
        github_text ==
            {Get(failed_checks[i], "name", "") : i \in DOMAIN failed_checks}
            \cup {Get(health_issues[i], "type", "") : i \in DOMAIN health_issues}
        k8s_text == Joined(Get(k8s_findings, "root_causes", <<>>))
    IN  IF HasKw(github_text, "health")
           /\ HasAny(k8s_text, {"probe", "readiness", "liveness"})
        THEN FallbackCorrelation(TRUE,
               "GitHub health checks are failing because Kubernetes liveness/readiness probes are failing, indicating the application is not responding correctly to health checks",
               "Application health probe configuration or application startup issues",
               "high",
               "Fix application health endpoints or adjust probe configuration (initialDelaySeconds, timeoutSeconds)",
               "health_probe")
        ELSE IF HasKw(github_text, "jenkins") /\ HasAny(k8s_text, {"image", "pull"})
        THEN FallbackCorrelation(TRUE,
               "GitHub CI/CD pipeline (Jenkins) is failing to build/push images, causing Kubernetes to fail pulling the container image",
               "CI/CD pipeline build or image registry issues",
               "high",
               "Fix Jenkins build pipeline and verify image registry credentials and connectivity",
               "image_build")
        ELSE IF HasKw(github_text, "build") /\ HasAny(k8s_text, {"crash", "restart"})
        THEN FallbackCorrelation(TRUE,
               "GitHub build is failing or producing faulty code, causing the application to crash when deployed to Kubernetes",
               "Application code issues or build configuration problems",
               "medium",
               "Review application logs, fix code issues, and ensure proper build configuration",
               "application_code")
        ELSE IF HasAny(k8s_text, {"secret", "config"})
                /\ HasKw(github_text, "deployment")
        THEN FallbackCorrelation(TRUE,
               "GitHub deployment is failing because Kubernetes pods cannot start due to missing secrets or configuration",
               "Missing or misconfigured secrets/configmaps in Kubernetes",
               "high",
               "Create or update required secrets and configmaps in the target namespace",
               "configuration")
        ELSE FallbackCorrelation(FALSE,
               "No clear correlation found between GitHub and Kubernetes issues",
               "Issues appear to be independent or require deeper investigation",
               "low",
               "Investigate GitHub and Kubernetes issues separately",
               "other")

\* correlate_findings as the summarizer node sees it: a dict, or None when
\* the call raised (the fallback raises when either argument is None)
correlate_findings(github_findings, k8s_findings, reply) ==
    IF reply.kind = "json" THEN reply.data
    ELSE IF github_findings = None \/ k8s_findings = None THEN None
    ELSE fallback_correlation(github_findings, k8s_findings)

-----------------------------------------------------------------------------
(* The historical retriever (utils/rag_service.py) and the synthesis LLM *)

\* get_historical_solutions catches its own errors: it always returns a dict
RetrieverReplies ==
    { [solutions_found |-> FALSE,
       message |-> "No similar historical incidents found",
       historical_incidents |-> <<>>, recommended_solutions |-> <<>>],
      [solutions_found |-> TRUE,
       message |-> "Found 1 historical solutions",
       historical_incidents |-> <<[jira_id |-> "OPS-7"]>>,
       recommended_solutions |->
           <<[jira_id |-> "OPS-7", summary |-> "Pods restarting",
              solution |-> "Increase the probe timeout",
              root_cause |-> "Slow startup", similarity_score |-> 1]>>,
       recommendations |-> <<"Review OPS-7">>] }

\* what the synthesis LLM answers
SynthesisReplies ==
    { [kind |-> "raise"], [kind |-> "not_object"],
      [kind |-> "json",
       data |-> [status |-> "success",
                 problem_identified |-> "Pods are failing",
                 root_cause |-> "Probe misconfigured",
                 solution |-> <<"Fix the probe">>,
                 summary |-> "Probe failure",
                 rag_solution |-> [rag_solution |-> "made up by the LLM"],
                 confidence |-> FALSE,
                 confidence_level |-> "medium",
                 confidence_reasoning |-> "the LLM's own opinion"]],
      [kind |-> "json",
       data |-> [status |-> "success",
                 problem_identified |-> "Unknown issue",
                 root_cause |-> "Unknown root cause",
                 solution |-> <<>>,
                 summary |-> "Nothing found"]],
      [kind |-> "json", data |-> EmptyDict] }

-----------------------------------------------------------------------------
(* intelligent_summarizer_node (core/node.py) *)

HasFindings(response) == response # None /\ DOMAIN response.findings # {}

\* a count of the agents that answered at all, with or without findings
AgentCount_CountsResponses(st) ==
    (IF st.github_response # None THEN 1 ELSE 0)
    + (IF st.kubernetes_response # None THEN 1 ELSE 0)
    + (IF st.jenkins_response # None THEN 1 ELSE 0)

AgentCount(st) ==
    (IF HasFindings(st.github_response) THEN 1 ELSE 0)
    + (IF HasFindings(st.kubernetes_response) THEN 1 ELSE 0)
    + (IF HasFindings(st.jenkins_response) THEN 1 ELSE 0)

FindingsOf(response) == IF response = None THEN None ELSE response.findings

\* generate_correlated_summary (core/summarizer.py) raises when the
\* correlation found something but its type or confidence is not a string
\* (.replace / .upper on None)
SummaryRaises(correlation_analysis) ==
    /\ Truthy(correlation_analysis)
    /\ Get(correlation_analysis, "correlation_found", FALSE)
    /\ \/ Get(correlation_analysis, "correlation_type", JStr("unknown")).t # "str"
       \/ Get(correlation_analysis, "correlation_confidence",
              JStr("unknown")).t # "str"

\* the STATUS line that closes the summary text
ProblemCount(findings) ==
    IF Truthy(findings) /\ Get(findings, "problem_identified", "") # ""
    THEN 1 ELSE 0

\* correlation_type.replace('_', ' ').title()
TitleCase(correlation_type) ==
    CASE correlation_type = "health_probe" -> "Health Probe"
      [] correlation_type = "image_build" -> "Image Build"
      [] correlation_type = "application_code" -> "Application Code"
      [] correlation_type = "configuration" -> "Configuration"
      [] correlation_type = "other" -> "Other"
      [] correlation_type = "unknown" -> "Unknown"

generate_correlated_summary(st, correlation_analysis) ==
    IF Truthy(correlation_analysis)
       /\ Get(correlation_analysis, "correlation_found", FALSE)
    THEN "STATUS: CORRELATED ISSUE: "
         \o TitleCase(Get(correlation_analysis, "correlation_type",
                          JStr("unknown")).v)
         \o " problem identified"
    ELSE LET issue_count == ProblemCount(FindingsOf(st.github_response))
                          + ProblemCount(FindingsOf(st.kubernetes_response))
                          + ProblemCount(FindingsOf(st.jenkins_response))
         IN  IF issue_count > 0
             THEN "STATUS: ISSUES FOUND: " \o ToString(issue_count)
                  \o " issues require investigation"
             ELSE "STATUS: No critical issues found"

NextActions(response) ==
    IF response = None THEN <<>> ELSE Take(response.next_actions, 3)

\* historical solutions are inserted at the front one by one, so the second
\* of the (at most two) solutions ends up first
RECURSIVE HistoricalActions(_)
HistoricalActions(solutions) ==
    IF solutions = <<>> THEN <<>>
    ELSE LET solution == Head(solutions)
             solution_text == Get(solution, "solution", "")
         IN  HistoricalActions(Tail(solutions))
             \o (IF solution_text # ""
                 THEN <<"[" \o Get(solution, "jira_id", "") \o "] "
                        \o solution_text \o "...">>
                 ELSE <<>>)

AllActions(st, correlation_analysis, historical_solutions) ==
    LET agent_actions == NextActions(st.github_response)
                         \o NextActions(st.kubernetes_response)
                         \o NextActions(st.jenkins_response)
        historical ==
            IF Truthy(historical_solutions)
               /\ Get(historical_solutions, "solutions_found", FALSE)
            THEN HistoricalActions(
                   Take(Get(historical_solutions, "recommended_solutions", <<>>), 2))
            ELSE <<>>
        correlated ==
            IF Truthy(correlation_analysis)
               /\ Get(correlation_analysis, "actionable_solution", "") # ""
            THEN <<correlation_analysis.actionable_solution>>
            ELSE <<>>
    IN  correlated \o historical \o agent_actions

ActionItemsCap == 5

\* the confidence fields _generate_final_standardized_response computes
ConfidenceOf(agent_count) ==
    IF agent_count = 0
    THEN [confidence |-> FALSE, confidence_level |-> "low",
          confidence_reasoning |-> "No agents were able to analyze this request"]
    ELSE IF agent_count = 1
    THEN [confidence |-> TRUE, confidence_level |-> "medium",
          confidence_reasoning |-> "Single agent provided analysis for this query"]
    ELSE [confidence |-> TRUE, confidence_level |-> "high",
          confidence_reasoning |-> "Multiple agents provided comprehensive analysis"]

\* a fallback that hands over every collected action, without the cut at five
llm_generate_final_response_UncappedFallback(reply, historical_solutions, all_actions, c) ==
    IF reply.kind = "json"
    THEN Put(Put(Put(Put(reply.data,
           "rag_solution", historical_solutions),
           "confidence", c.confidence),
           "confidence_level", c.confidence_level),
           "confidence_reasoning", c.confidence_reasoning)
    ELSE [status |-> "success",
          problem_identified |-> "Analysis completed but response parsing failed",
          root_cause |-> "LLM response parsing error",
          solution |-> IF all_actions # <<>> THEN all_actions
                       ELSE <<"Manual review required">>,
          summary |-> "Analysis completed but final response synthesis failed",
          rag_solution |-> historical_solutions,
          confidence |-> c.confidence,
          confidence_level |-> c.confidence_level,
          confidence_reasoning |-> c.confidence_reasoning]

\* _llm_generate_final_response: the LLM's JSON object with four fields
\* overwritten, or the fallback response when the call or the parsing fails
llm_generate_final_response(reply, historical_solutions, all_actions, c) ==
    IF reply.kind = "json"
    THEN Put(Put(Put(Put(reply.data,
           "rag_solution", historical_solutions),
           "confidence", c.confidence),
           "confidence_level", c.confidence_level),
           "confidence_reasoning", c.confidence_reasoning)
    ELSE [status |-> "success",
          problem_identified |-> "Analysis completed but response parsing failed",
          root_cause |-> "LLM response parsing error",
          solution |-> IF all_actions # <<>>
                       THEN Take(all_actions, ActionItemsCap)
                       ELSE <<"Manual review required">>,
          summary |-> "Analysis completed but final response synthesis failed",
          rag_solution |-> historical_solutions,
          confidence |-> c.confidence,
          confidence_level |-> c.confidence_level,
          confidence_reasoning |-> c.confidence_reasoning]

generate_final_standardized_response(st, reply, historical_solutions, all_actions) ==
    llm_generate_final_response(reply, historical_solutions, all_actions,
                                ConfidenceOf(AgentCount(st)))

\* the response of the node's own exception handler
SummarizerErrorResponse ==
    [status |-> "failed",
     problem_identified |-> "Analysis failed due to technical error",
     root_cause |-> "Technical error during analysis",
     solution |-> <<"Contact DevOps team for manual analysis",
                    "Retry the request">>,
     summary |-> "Intelligent analysis failed",
     rag_solution |->
         [rag_solution |-> "None", similarity_score |-> 0, jira_id |-> "None",
          message |-> "No RAG solution available due to analysis failure"],
     confidence |-> FALSE,
     confidence_level |-> "low",
     confidence_reasoning |-> "Analysis failed - no reliable results available"]

SummarizerNodeState(st, correlation_analysis, historical_solutions, reply) ==
    IF SummaryRaises(correlation_analysis)
    THEN [st EXCEPT
            !.summary = "Analysis completed with errors",
            !.status = "completed_with_errors",
            !.final_response = SummarizerErrorResponse]
    ELSE LET all_actions ==
                 AllActions(st, correlation_analysis, historical_solutions)
         IN  [st EXCEPT
                !.correlation_analysis = correlation_analysis,
                !.historical_solutions = historical_solutions,
                !.summary = generate_correlated_summary(st, correlation_analysis),
                !.action_items = Take(all_actions, ActionItemsCap),
                !.status = "completed",
                !.final_response =
                    generate_final_standardized_response(
                        st, reply, historical_solutions, all_actions)]

SummarizerNode ==
    /\ pc = "intelligent_summarizer"
    /\ trace' = Append(trace, "intelligent_summarizer")
    /\ \E correlation \in
            IF AgentCount(state) >= 2 /\ services.correlation_engine
            THEN CorrelationReplies ELSE {None},
          retrieved \in
            IF services.rag_service THEN RetrieverReplies ELSE {None} :
         LET correlation_analysis ==
                 IF correlation = None THEN None
                 ELSE correlate_findings(FindingsOf(state.github_response),
                                         FindingsOf(state.kubernetes_response),
                                         correlation)
             synthesis_called == ~SummaryRaises(correlation_analysis)
         IN  \E reply \in IF synthesis_called THEN SynthesisReplies ELSE {None} :
               /\ state' = SummarizerNodeState(state, correlation_analysis,
                                               retrieved, reply)
               /\ calls' =
                    [calls EXCEPT
                       !.correlation = @ + (IF correlation = None THEN 0 ELSE 1),
                       !.retriever = @ + (IF retrieved = None THEN 0 ELSE 1),
                       !.synthesis = @ + (IF synthesis_called THEN 1 ELSE 0)]
               /\ inputs' = [inputs EXCEPT !.correlation = correlation,
                                            !.retriever = retrieved,
                                            !.synthesis = reply]
    /\ pc' = "END"
    /\ UNCHANGED <<services, query, result, api_response, k8s_case>>

-----------------------------------------------------------------------------
(* unavailable_agent_node (core/node.py) *)

UnavailableFinalResponse ==
    [status |-> "unsupported",
     problem_identified |-> "Request not supported for automated analysis",
     root_cause |-> "The user's request does not fall into a category that can be analyzed by the available DevOps agents.",
     solution |-> <<"Please rephrase your request if it is a DevOps issue that requires analysis, or handle it manually.">>,
     summary |-> "The provided request is not an analysis task and is therefore not supported by this automated system.",
     rag_solution |-> [solutions_found |-> FALSE,
                       message |-> "No RAG solution available as the request is unsupported."],
     confidence |-> FALSE,
     confidence_level |-> "low",
     confidence_reasoning |-> "The request was correctly routed to the unavailable agent, as it is outside the scope of automated analysis."]

UnavailableAgentNode ==
    /\ pc = "unavailable_agent"
    /\ trace' = Append(trace, "unavailable_agent")
    /\ state' = [state EXCEPT
                   !.agent_status = Put(@, "unavailable", "completed"),
                   !.status = "unsupported",
                   !.final_response = UnavailableFinalResponse]
    /\ pc' = "END"
    /\ UNCHANGED <<services, query, result, api_response, calls, inputs, k8s_case>>

-----------------------------------------------------------------------------
(* UnifiedDevOpsOrchestrator.execute (core/orchestrator.py) *)

\* what execute returns when the graph raised
ExecuteFailure ==
    [status |-> "failed",
     summary |-> "Intelligent analysis failed",
     errors_found |-> <<[source |-> "workflow", error |-> "exception"]>>]

\* ainvoke returned the final state (pc = "END") or raised (pc = "raised")
ExecuteReturn ==
    /\ pc \in {"END", "raised"}
    /\ result' = IF pc = "END" THEN state ELSE ExecuteFailure
    /\ pc' = "returned"
    /\ UNCHANGED <<state, services, query, api_response, trace, calls, inputs,
                   k8s_case>>

-----------------------------------------------------------------------------
(* POST /analyze (app.py, analyze_devops_query) *)

ApiResponse(problem_identified, root_cause, solution, summary, message, reasoning) ==
    [status |-> "failed",
     problem_identified |-> problem_identified,
     root_cause |-> root_cause,
     solution |-> solution,
     summary |-> summary,
     rag_solution |-> [rag_solution |-> "None", similarity_score |-> 0,
                       jira_id |-> "None", message |-> message],
     confidence |-> FALSE,
     confidence_level |-> "low",
     confidence_reasoning |-> reasoning]

\* returned by the handler's except clause
ApiErrorResponse ==
    ApiResponse("API execution error", "API error",
                <<"Contact DevOps team for assistance", "Retry the request",
                  "Check system logs">>,
                "API execution failed",
                "No RAG solution available due to API error",
                "API execution failed")

\* returned by the branch for a result without final_response
SystemBugResponse ==
    ApiResponse("Workflow execution error",
                "Workflow did not produce final_response - this is a system bug",
                <<"Contact DevOps team - workflow malfunction",
                  "Check workflow node implementations">>,
                "Workflow execution failed to produce final response",
                "No RAG solution available due to workflow error",
                "Workflow execution failed to produce final response")

\* the handler up to the call of execute: get_orchestrator() raises when
\* there is no instance, the handler raises when it is not initialized
AnalyzeRequest ==
    /\ pc = "analyze"
    /\ IF services.instance /\ services.initialized
       THEN /\ state' = InitialState(query)
            /\ pc' = "orchestrator"
            /\ UNCHANGED api_response
       ELSE /\ api_response' = ApiErrorResponse
            /\ pc' = "responded"
            /\ UNCHANGED state
    /\ UNCHANGED <<services, query, result, trace, calls, inputs, k8s_case>>

\* the handler after execute returned
analyze_response(res) ==
    LET final_response == Get(res, "final_response", None)
    IN  IF final_response = None
        THEN ApiErrorResponse   \* None.get(...) raises inside the try block
        ELSE IF Get(final_response, "root_cause", "") = "Unknown root cause"
        THEN Put(final_response, "confidence", FALSE)
        ELSE IF DOMAIN final_response # {} THEN final_response
        ELSE SystemBugResponse

AnalyzeRespond ==
    /\ pc = "returned"
    /\ api_response' = analyze_response(result)
    /\ pc' = "responded"
    /\ UNCHANGED <<state, services, query, result, trace, calls, inputs, k8s_case>>

-----------------------------------------------------------------------------
(* The workflow specification: one /analyze request *)

\* what start-up left behind: everything came up, or one piece did not
AllServices ==
    [instance |-> TRUE, initialized |-> TRUE, kubernetes_tools |-> TRUE,
     correlation_engine |-> TRUE, rag_service |-> TRUE]

Services ==
    {AllServices} \cup
    {[AllServices EXCEPT ![piece] = FALSE] : piece \in DOMAIN AllServices}

Init ==
    /\ pc = "analyze"
    /\ state = None
    /\ services \in Services
    /\ query \in Prompts
    /\ result = None
    /\ api_response = None
    /\ trace = <<>>
    /\ calls = NoCalls
    /\ inputs = NoInputs
    /\ k8s_case = None

Next ==
    \/ AnalyzeRequest
    \/ OrchestratorNode
    \/ GitHubNode
    \/ KubernetesNode
    \/ JenkinsNode
    \/ SummarizerNode
    \/ UnavailableAgentNode
    \/ ExecuteReturn
    \/ AnalyzeRespond

Spec == Init /\ [][Next]_vars

\* ainvoke awaits each node and runs the next one the routing names; the
\* request handler awaits execute: a step that can be taken is taken
SpecLive == Spec /\ WF_vars(Next)

-----------------------------------------------------------------------------
(* _combine_k8s_findings on its own: every list of at most MaxRecords      *)
(* per-namespace records                                                   *)

ExplicitRecord ==
    [healthy_pods |-> <<[name |-> "api-3"]>>,
     problem_identified |-> "Deployment has zero replicas",
     root_cause |-> "Scaled down by the autoscaler"]

OtherAnalysedRecord ==
    [unhealthy_pods |-> <<[name |-> "api-4"]>>,
     intelligent_analysis |-> [problem_summary |-> "Pod cannot pull its image",
                               root_cause |-> "Registry credentials expired"]]

PartialAnalysedRecord ==
    [intelligent_analysis |-> [developer_actions |-> <<"Check the logs">>]]

RootCauseRecord ==
    [healthy_pods |-> <<[name |-> "api-5"]>>,
     root_causes |-> <<"node under memory pressure">>,
     solution |-> <<"Cordon the node", "Drain the node",
                    "Reschedule the pods">>]

CombineRecords ==
    {EmptyDict, HealthyRecord, UnhealthyRecord, ExplicitRecord, AnalysedRecord,
     OtherAnalysedRecord, PartialAnalysedRecord, RootCauseRecord}

CombineNamespaceInfo(n) ==
    [environment |-> "stg", business_unit |-> "central",
     namespaces |-> [i \in 1..n |-> "stg-app-" \o ToString(i)]]

InitCombine ==
    /\ pc = "combine"
    /\ state = None
    /\ services = AllServices
    /\ query = {}
    /\ result = None
    /\ api_response = None
    /\ trace = <<>>
    /\ calls = NoCalls
    /\ inputs = NoInputs
    /\ \E all_findings \in SeqsUpTo(CombineRecords, MaxRecords) :
         k8s_case = [all_findings |-> all_findings,
                     namespace_info |-> CombineNamespaceInfo(Len(all_findings)),
                     combined |-> None]

CombineK8sFindings ==
    /\ pc = "combine"
    /\ k8s_case' = [k8s_case EXCEPT
                      !.combined = combine_k8s_findings(k8s_case.all_findings,
                                                        k8s_case.namespace_info)]
    /\ pc' = "combined"
    /\ UNCHANGED <<state, services, query, result, api_response, trace, calls,
                   inputs>>

NextCombine == CombineK8sFindings

SpecCombine == InitCombine /\ [][NextCombine]_vars

-----------------------------------------------------------------------------
(* orchestrator_node entered again after agent nodes have run: every state *)
(* an agent node can hand back to the router                               *)

ReRoutePrompts ==
    { {"This PR is stuck", "https://github.com/meesho/bug-buster-bot/pull/54"},
      {"Pods are crashlooping in stg-bug-buster namespace"},
      {"the pull request is red"},
      {"github actions are red"} }

\* the state after the initial routing and the agent nodes that ran
AfterInitialRouting(user_prompt) ==
    InitialRoutingState(InitialState(user_prompt),
        [task_type |-> "github", reasoning |-> JStr("PR URL present"),
         confidence |-> "high"])

AfterGitHub(st) == {st} \cup {GitHubNodeState(st, reply) : reply \in GitHubReplies}

AfterKubernetes(st) ==
    {st} \cup {K8sNodeAnalysed(st, CombineNamespaceInfo(1), <<record>>) :
                  record \in {UnhealthyRecord, HealthyRecord}}

InitReRoute ==
    /\ pc = "orchestrator"
    /\ services = AllServices
    /\ query \in ReRoutePrompts
    /\ \E st \in AfterGitHub(AfterInitialRouting(query)) :
         /\ state \in AfterKubernetes(st)
         /\ state # AfterInitialRouting(query)
    /\ trace = <<"orchestrator">>
                 \o (IF state.github_response # None
                     THEN <<"github_agent">> ELSE <<>>)
                 \o (IF state.kubernetes_response # None
                     THEN <<"kubernetes_agent">> ELSE <<>>)
    /\ result = None
    /\ api_response = None
    /\ calls = Called(NoCalls, "classifier")
    /\ inputs = NoInputs
    /\ k8s_case = None

ReRoute ==
    /\ state.routing_decisions # <<>>
    /\ OrchestratorNode

NextReRoute == ReRoute

SpecReRoute == InitReRoute /\ [][NextReRoute]_vars

-----------------------------------------------------------------------------
(* Two /analyze requests whose kubernetes_agent_node runs are in flight on *)
(* the same event loop; the kubectl context is process-wide                *)

Requests == {1, 2}

Contexts == {"k8s-central-stg", "k8s-supply-prd"}

\* the awaits inside debug_application_health, in order
ToolAfter(tool) ==
    CASE tool = "pods" -> "events"
      [] tool = "events" -> "logs"
      [] tool = "logs" -> "returned"

\* the kubectl context handle_cluster_switching_fixed leaves behind
handle_cluster_switching_fixed(current_context, target_context, switched) ==
    IF target_context = "" THEN current_context
    ELSE IF target_context # current_context /\ switched THEN target_context
    ELSE current_context

InitCluster ==
    /\ pc = "cluster"
    /\ state = None
    /\ services = AllServices
    /\ query = {}
    /\ result = None
    /\ api_response = None
    /\ trace = <<>>
    /\ calls = NoCalls
    /\ inputs = NoInputs
    /\ \E context \in Contexts :
         k8s_case =
             [kubectl_context |-> context,
              requests |-> [r \in Requests |->
                              [at |-> "detect", target |-> "", selected |-> "",
                               namespaces |-> 0]]]

\* the namespace detector answers (the awaits before the switch);
\* cluster_context_needed is a context, or "" when the detector found none
DetectNamespaces(r) ==
    /\ k8s_case.requests[r].at = "detect"
    /\ \E target \in Contexts \cup {""}, n \in 0..MaxNamespaces :
         k8s_case' = [k8s_case EXCEPT
                        !.requests[r] = [at |-> "switch", target |-> target,
                                         selected |-> "", namespaces |-> n]]
    /\ UNCHANGED <<pc, state, services, query, result, api_response, trace,
                   calls, inputs>>

\* from the detector's return to the first await of the first
\* debug_application_health call: nothing suspends in between
SwitchCluster(r) ==
    /\ k8s_case.requests[r].at = "switch"
    /\ \E switched \in BOOLEAN :
         LET context ==
                 handle_cluster_switching_fixed(k8s_case.kubectl_context,
                                                k8s_case.requests[r].target,
                                                switched)
         IN  k8s_case' =
                 [k8s_case EXCEPT
                    !.kubectl_context = context,
                    !.requests[r].selected = context,
                    !.requests[r].at =
                        IF k8s_case.requests[r].namespaces = 0
                        THEN "done" ELSE "pods"]
    /\ UNCHANGED <<pc, state, services, query, result, api_response, trace,
                   calls, inputs>>

\* one awaited tool call of debug_application_health completes; after the
\* last one the call returns and the loop starts the next namespace
DebugStep(r) ==
    /\ k8s_case.requests[r].at \in {"pods", "events", "logs"}
    /\ LET next == ToolAfter(k8s_case.requests[r].at)
           left == k8s_case.requests[r].namespaces - 1
       IN  k8s_case' =
               IF next # "returned"
               THEN [k8s_case EXCEPT !.requests[r].at = next]
               ELSE [k8s_case EXCEPT
                       !.requests[r].namespaces = left,
                       !.requests[r].at = IF left = 0 THEN "done" ELSE "pods"]
    /\ UNCHANGED <<pc, state, services, query, result, api_response, trace,
                   calls, inputs>>

NextCluster ==
    \E r \in Requests :
        \/ DetectNamespaces(r)
        \/ SwitchCluster(r)
        \/ DebugStep(r)

SpecCluster == InitCluster /\ [][NextCluster]_vars

-----------------------------------------------------------------------------
(* Properties *)

LastNode == IF trace = <<>> THEN "none" ELSE trace[Len(trace)]

\* execute has returned (the /analyze handler may have answered already)
ExecuteReturned == pc \in {"returned", "responded"} /\ result # None

\* C1 (termination): once execute has returned, the run went through a
\* terminal node (intelligent_summarizer or unavailable_agent) as its last
\* node, after at most RecursionLimit graph transitions, whatever the
\* classifier, the agents, the correlation engine and the retriever did.
C1_TerminalNodeWithinLimit ==
    ExecuteReturned =>
        /\ LastNode \in TerminalNodes
        /\ Len(trace) <= RecursionLimit

\* C2 (postcondition of execute): the state execute returns carries a
\* final_response that is not null, whatever the collaborators did.
C2_FinalResponseNotNull ==
    ExecuteReturned => Get(result, "final_response", None) # None

SummarizerRan == LastNode = "intelligent_summarizer"

\* C3 (confidence monotonicity): the FinalResponse the summarizer node
\* produced has confidence_level low and confidence false iff no agent
\* response has findings, medium and true iff exactly one has, high and true
\* iff two or more have, whatever the synthesis LLM returned and whichever
\* step of the node failed.
C3_ConfidenceFollowsAgentCount ==
    SummarizerRan =>
        LET n == AgentCount(state)
        IN  /\ Get(state.final_response, "confidence_level", "")
                 = (IF n = 0 THEN "low" ELSE IF n = 1 THEN "medium" ELSE "high")
            /\ Get(state.final_response, "confidence", n = 0) = (n # 0)

\* C4 (RAG fidelity): in a run in which the retriever was queried, the
\* rag_solution of the FinalResponse the summarizer node produced is the
\* object the retriever returned, on the success path and on every failure
\* path of the node.
C4_RagSolutionIsRetrieved ==
    (SummarizerRan /\ calls.retriever > 0) =>
        /\ "rag_solution" \in DOMAIN state.final_response
        /\ state.final_response.rag_solution = inputs.retriever

\* the classifier answered with a JSON object whose agent is none of the
\* names the routing knows
UnrecognizedAgent ==
    /\ state # None
    /\ state.routing_decisions # <<>>
    /\ inputs.classifier.kind = "json"
    /\ "agent" \in DOMAIN inputs.classifier.data
    /\ inputs.classifier.data.agent.v
          \notin {"github", "kubernetes", "jenkins", "unavailable_agent",
                  "summarizer"}

\* C5 (classification coercion): when the classifier's agent is not a
\* recognized name, the initial RoutingDecision has next_agent
\* unavailable_agent and confidence low, whatever confidence the classifier
\* gave.
C5_UnrecognizedAgentCoercedLow ==
    UnrecognizedAgent =>
        /\ state.routing_decisions[1].next_agent = "unavailable_agent"
        /\ state.routing_decisions[1].confidence = "low"

\* the GitHub node has run and its analyzer asked for the given escalation
GitHubEscalated(status) ==
    /\ "github_agent" \in Range(trace)
    /\ inputs.github.kind = "return"
    /\ Get(inputs.github.analysis, "status", "") = status

\* C6 (escalation handoff): after the GitHub analyzer returned
\* route_to_jenkins with jenkins_urls (resp. route_to_k8s with environment
\* and applications), user_prompt contains every one of the URLs (resp. the
\* environment and every application), agent_status[github] is
\* routing_to_jenkins (resp. routing_to_k8s), never completed or failed, and
\* right after the GitHub node final_response is still null.
C6_EscalationHandoff ==
    /\ GitHubEscalated("route_to_jenkins") =>
         /\ Range(inputs.github.analysis.jenkins_failure_info.jenkins_urls)
               \subseteq state.user_prompt
         /\ state.agent_status["github"] = "routing_to_jenkins"
         /\ LastNode = "github_agent" => state.final_response = None
    /\ GitHubEscalated("route_to_k8s") =>
         /\ inputs.github.analysis.health_check_info.environment
               \in state.user_prompt
         /\ Range(inputs.github.analysis.health_check_info.applications)
               \subseteq state.user_prompt
         /\ state.agent_status["github"] = "routing_to_k8s"
         /\ LastNode = "github_agent" => state.final_response = None

\* right after the GitHub node escalated two build URLs to Jenkins
C6_EscalationSeen ==
    /\ LastNode = "github_agent"
    /\ GitHubEscalated("route_to_jenkins")
    /\ Len(inputs.github.analysis.jenkins_failure_info.jenkins_urls) = 2
    /\ {"https://jenkins-x/job/y/1", "https://ci.example/job/health-check/7"}
          \subseteq state.user_prompt
    /\ state.agent_status["github"] = "routing_to_jenkins"
    /\ state.final_response = None

\* the records of the list that carry a non-empty intelligent_analysis
AnalysedIndexes ==
    {i \in DOMAIN k8s_case.all_findings :
        HasIntelligentAnalysis(k8s_case.all_findings[i])}

\* C7 (Kubernetes combination priority): when exactly one record of the list
\* has a non-empty intelligent_analysis, at whatever position, the combined
\* problem_identified and root_cause are that analysis's problem_summary and
\* root_cause (when it carries them) and never a sibling record's own
\* problem_identified or root_cause.
C7_AnalysedRecordDecides ==
    (pc = "combined" /\ Cardinality(AnalysedIndexes) = 1) =>
        LET i == CHOOSE i \in AnalysedIndexes : TRUE
            ia == k8s_case.all_findings[i].intelligent_analysis
            combined == k8s_case.combined
        IN  /\ "problem_summary" \in DOMAIN ia
                 => combined.problem_identified = ia.problem_summary
            /\ "root_cause" \in DOMAIN ia
                 => combined.root_cause = ia.root_cause
            /\ \A j \in DOMAIN k8s_case.all_findings \ {i} :
                 LET sibling == k8s_case.all_findings[j]
                 IN  /\ "problem_identified" \in DOMAIN sibling
                          => combined.problem_identified
                               # sibling.problem_identified
                     /\ "root_cause" \in DOMAIN sibling
                          => combined.root_cause # sibling.root_cause

\* three records, only the third analysed, the first with a problem of its own
C7_ThirdOfThreeAnalysed ==
    /\ pc = "combined"
    /\ Len(k8s_case.all_findings) = 3
    /\ AnalysedIndexes = {3}
    /\ k8s_case.all_findings[1] = ExplicitRecord
    /\ k8s_case.all_findings[2] = UnhealthyRecord
    /\ k8s_case.all_findings[3] = AnalysedRecord
    /\ k8s_case.combined.problem_identified = "Pod is OOMKilled"
    /\ k8s_case.combined.root_cause = "Memory limit too low"

FinalResponseFields ==
    {"status", "problem_identified", "root_cause", "solution", "summary",
     "rag_solution", "confidence", "confidence_level", "confidence_reasoning"}

\* C8 (well-formed answer): whatever the workflow and the collaborators did,
\* the object /analyze returns has all nine FinalResponse fields.
C8_ResponseHasNineFields ==
    pc = "responded" => FinalResponseFields \subseteq DOMAIN api_response

\* C9 (structural failure): when the result execute handed to /analyze has
\* no final_response, the caller gets the system-bug response, whose root
\* cause says that the workflow did not produce final_response, and not the
\* generic failure response.
C9_MissingFinalResponseIsSystemBug ==
    (pc = "responded" /\ result # None
       /\ Get(result, "final_response", None) = None) =>
        /\ api_response = SystemBugResponse
        /\ api_response # ApiErrorResponse

InitialRouteUnavailable ==
    /\ state # None
    /\ state.routing_decisions # <<>>
    /\ state.routing_decisions[1].next_agent = "unavailable_agent"

\* C10 (unsupported request): when the initial RoutingDecision is
\* unavailable_agent the run is orchestrator, unavailable_agent, END: no
\* agent node runs, the correlation engine, the retriever and the synthesis
\* LLM are never called, and once the node has run the FinalResponse has
\* status unsupported, confidence false, confidence_level low and the
\* state's status is unsupported.
C10_UnsupportedPath ==
    InitialRouteUnavailable =>
        /\ calls.correlation = 0 /\ calls.retriever = 0 /\ calls.synthesis = 0
        /\ IF pc = "unavailable_agent"
           THEN trace = <<"orchestrator">>
           ELSE /\ pc \in {"END", "returned", "responded"}
                /\ trace = <<"orchestrator", "unavailable_agent">>
                /\ state.final_response # None
                /\ state.final_response.status = "unsupported"
                /\ state.final_response.confidence = FALSE
                /\ state.final_response.confidence_level = "low"
                /\ state.status = "unsupported"
                /\ pc \in {"returned", "responded"} => result = state

\* the unsupported run has ended at END through unavailable_agent
C10_UnsupportedRunEnded ==
    /\ InitialRouteUnavailable
    /\ pc = "END"
    /\ trace = <<"orchestrator", "unavailable_agent">>
    /\ state.final_response.status = "unsupported"

\* the step is the given agent node and an exception was raised inside it
AgentRaised(node, agent) == pc = node /\ inputs'[agent].kind = "raise"

AgentFields == {"github_response", "kubernetes_response", "jenkins_response"}

\* what the step leaves behind when the exception is caught at the node
FailureContained(node, agent, field) ==
    AgentRaised(node, agent) =>
        LET response == state'[field]
        IN  /\ response # None
            /\ response.status = "failed"
            /\ response.findings = EmptyDict
            /\ Len(response.errors) = 1
            /\ response.errors[1].error = inputs'[agent].message
            /\ response.next_actions # <<>>
            /\ state'.agent_status[agent] = "failed"
            /\ \A f \in AgentFields \ {field} : state'[f] = state[f]
            /\ \A a \in DOMAIN state.agent_status \ {agent} :
                  state'.agent_status[a] = state.agent_status[a]
            /\ pc' \in GraphNodes

\* C11 (agent failure semantics): a step of the GitHub, Kubernetes or Jenkins
\* node in which an exception is raised returns normally: that agent's
\* response has status failed, empty findings, one errors entry carrying the
\* exception message and non-empty next_actions, agent_status for it is
\* failed, the other agents' responses and statuses are unchanged, and the
\* graph goes on to a node (the exception does not reach the engine).
C11_AgentFailureContained ==
    [][ /\ FailureContained("github_agent", "github", "github_response")
        /\ FailureContained("kubernetes_agent", "kubernetes",
                            "kubernetes_response")
        /\ FailureContained("jenkins_agent", "jenkins", "jenkins_response")
      ]_vars

\* the debugger raised in the Kubernetes node after GitHub had succeeded
C11_KubernetesFailedAfterGitHub ==
    /\ LastNode = "kubernetes_agent"
    /\ inputs.kubernetes = DebuggerError
    /\ state.kubernetes_response.status = "failed"
    /\ state.kubernetes_response.errors[1].error = "cluster unreachable"
    /\ state.github_response # None
    /\ state.github_response.status = "success"
    /\ state.agent_status["github"] = "completed"
    /\ pc = "intelligent_summarizer"

AgentNodes == {"github_agent", "kubernetes_agent", "jenkins_agent"}

\* C12 (classifier failure is never surfaced): whatever the routing LLM did
\* (exception, text that is not a JSON object, JSON object with missing or
\* null fields), right after the orchestrator node exactly one
\* RoutingDecision has been appended and the run is about to execute an agent
\* node or the unavailable_agent node; the node did not raise.
C12_ClassifierFailureRecovered ==
    trace = <<"orchestrator">> =>
        /\ pc \in AgentNodes \cup {"unavailable_agent"}
        /\ Len(state.routing_decisions) = 1

\* the agent responses of the current state that carry non-empty findings
WithFindings ==
    {f \in AgentFields : state[f] # None /\ state[f].findings # EmptyDict}

\* C13 (correlation precondition): the correlation engine is invoked at most
\* once in a run and only when at least two of the three agent responses
\* have non-empty findings; so a non-null correlation_analysis implies that
\* at least two agents had findings, and a run in which fewer than two had
\* never calls it.
C13_CorrelationNeedsTwoAgents ==
    state # None =>
        /\ calls.correlation <= 1
        /\ calls.correlation = 1 => Cardinality(WithFindings) >= 2
        /\ state.correlation_analysis # None => Cardinality(WithFindings) >= 2
        /\ Cardinality(WithFindings) < 2 => calls.correlation = 0

\* the summarizer correlated the findings of GitHub and Kubernetes
C13_CorrelatedTwoAgents ==
    /\ SummarizerRan
    /\ calls.correlation = 1
    /\ state.correlation_analysis # None
    /\ WithFindings = {"github_response", "kubernetes_response"}

TerminalRuns == {i \in DOMAIN trace : trace[i] \in TerminalNodes}

\* C14 (final_response is written once, by a terminal node): a step changes
\* final_response only if it is a step of intelligent_summarizer or
\* unavailable_agent and final_response was null before it; a terminal node
\* runs only if none has run before in the run and it leaves a non-null
\* final_response; and the run ends (END) only out of a terminal node.
C14_FinalResponseWrittenOnce ==
    [][ /\ (state # None /\ state'.final_response # state.final_response)
             => (pc \in TerminalNodes /\ state.final_response = None)
        /\ pc \in TerminalNodes
             => (TerminalRuns = {} /\ state'.final_response # None)
        /\ pc' = "END" => pc \in TerminalNodes
      ]_vars

\* a run through two agent nodes has ended in the summarizer
C14_SummarizerWroteResponse ==
    /\ pc = "END"
    /\ trace = <<"orchestrator", "github_agent", "kubernetes_agent",
                 "intelligent_summarizer">>
    /\ state.final_response # None
    /\ Cardinality(TerminalRuns) = 1

HealthKeywords ==
    {"health", "degraded", "unhealthy", "probe", "crash", "restart"}

\* positions of the trace at which the GitHub node ran with Kubernetes not
\* yet executed
GitHubBeforeKubernetes ==
    {i \in DOMAIN trace :
        /\ trace[i] = "github_agent"
        /\ \A j \in 1..(i - 1) : trace[j] # "kubernetes_agent"}

\* the node executed (or about to be executed) right after position i
NodeAfter(i) == IF i < Len(trace) THEN trace[i + 1] ELSE pc

AgentOf(node) ==
    CASE node = "github_agent" -> "github"
      [] node = "kubernetes_agent" -> "kubernetes"
      [] node = "jenkins_agent" -> "jenkins"

\* the agents executed in the run, in execution order
ExecutedAgents ==
    LET nodes == SelectSeq(trace, LAMBDA n : n \in AgentNodes)
    IN  [i \in DOMAIN nodes |-> AgentOf(nodes[i])]

\* what the routing tests read: the agent fields of execution_history,
\* without the orchestrator's entries
HistoryAgents ==
    LET steps == SelectSeq(state.execution_history,
                           LAMBDA step : step.agent # "orchestrator")
    IN  [i \in DOMAIN steps |-> steps[i].agent]

\* C16 (execution_history records the executed path): at the end of a run
\* execution_history has one entry per execution of an agent node, in
\* execution order, including the executions that failed or short-circuited.
C16_HistoryRecordsExecutedPath ==
    pc = "END" => HistoryAgents = ExecutedAgents

GitHubRuns == {i \in DOMAIN trace : trace[i] = "github_agent"}

\* C19 (explicit escalation is honoured immediately): when the GitHub agent
\* returned route_to_k8s (resp. route_to_jenkins), the node executed right
\* after github_agent is kubernetes_agent (resp. jenkins_agent), whatever the
\* escalation payload contains and whichever agents already executed.
C19_EscalationHonouredImmediately ==
    \A i \in GitHubRuns :
        /\ GitHubEscalated("route_to_k8s")
             => NodeAfter(i) = "kubernetes_agent"
        /\ GitHubEscalated("route_to_jenkins")
             => NodeAfter(i) = "jenkins_agent"

\* C20 (a failed agent leads to the summarizer): right after an agent node
\* that caught an exception (its response has status failed and empty
\* findings) the next node is the summarizer, for every user prompt.
C20_FailedAgentGoesToSummarizer ==
    (LastNode \in AgentNodes /\ inputs[AgentOf(LastNode)].kind = "raise") =>
        pc = "intelligent_summarizer"

\* the classifier call or the parsing of its answer failed
ClassifierFailed ==
    /\ state # None
    /\ state.routing_decisions # <<>>
    /\ inputs.classifier.kind \in {"raise", "not_object"}

\* C21 (keyword fallback classification): when the classifier call or the
\* parsing of its output failed, the initial RoutingDecision is kubernetes if
\* the request's prompt contains a Kubernetes keyword, else jenkins if it
\* contains a Jenkins keyword, else github if it contains a GitHub keyword,
\* else unavailable_agent, and its confidence is low in all four cases.
C21_KeywordFallback ==
    ClassifierFailed =>
        LET decision == state.routing_decisions[1]
        IN  /\ decision.confidence = "low"
            /\ decision.next_agent =
                  (IF \E kw \in {"pod", "namespace", "k8s", "kubernetes",
                                  "crash", "health", "deploy"} : HasKw(query, kw)
                   THEN "kubernetes"
                   ELSE IF \E kw \in {"jenkins", "build", "ci/cd", "console"} :
                             HasKw(query, kw)
                   THEN "jenkins"
                   ELSE IF \E kw \in {"github", "pr", "pull request"} :
                             HasKw(query, kw)
                   THEN "github"
                   ELSE "unavailable_agent")

\* the fallback chose Kubernetes for a prompt that also names a PR
C21_KubernetesBeforeGitHub ==
    /\ ClassifierFailed
    /\ inputs.classifier.kind = "raise"
    /\ HasKw(query, "unhealthy")
    /\ HasKw(query, "github.com")
    /\ state.routing_decisions[1].next_agent = "kubernetes"
    /\ state.routing_decisions[1].confidence = "low"
    /\ trace = <<"orchestrator">>
    /\ pc = "kubernetes_agent"

\* the summarizer ran and its synthesis LLM call raised or returned
\* something that is not a JSON object
SynthesisFailed ==
    /\ SummarizerRan
    /\ inputs.synthesis # None
    /\ inputs.synthesis.kind \in {"raise", "not_object"}

\* C22 (synthesis fallback): when the synthesis LLM call raised or returned
\* unparsable output, the FinalResponse's solution is the first 5 collected
\* action items (the state's action_items) or the single manual-review item
\* when there are none, problem_identified is the generic synthesis-failed
\* text, rag_solution is what the retriever returned (null when there is no
\* retriever), the confidence fields are those of the agent-count rule, and
\* the state's status is completed.
C22_SynthesisFallback ==
    SynthesisFailed =>
        LET r == state.final_response
            n == Cardinality(WithFindings)
        IN  /\ r.solution = (IF state.action_items # <<>>
                             THEN state.action_items
                             ELSE <<"Manual review required">>)
            /\ Len(r.solution) <= 5
            /\ r.problem_identified
                  = "Analysis completed but response parsing failed"
            /\ r.rag_solution = inputs.retriever
            /\ r.confidence = (n # 0)
            /\ r.confidence_level
                  = (IF n = 0 THEN "low" ELSE IF n = 1 THEN "medium" ELSE "high")
            /\ r.confidence_reasoning
                  = ConfidenceOf(n).confidence_reasoning
            /\ state.status = "completed"

\* the synthesis call raised in a run that had collected six actions
C22_FallbackCutAtFive ==
    /\ SynthesisFailed
    /\ inputs.synthesis.kind = "raise"
    /\ Len(AllActions(state, state.correlation_analysis,
                      state.historical_solutions)) = 6
    /\ Len(state.final_response.solution) = 5
    /\ state.final_response.rag_solution = inputs.retriever
    /\ inputs.retriever # None
    /\ state.final_response.confidence_level = "high"

\* the first record of the list, in list order, that satisfies the test
FirstIndex(indexes) == CHOOSE i \in indexes : \A j \in indexes : i <= j

\* C23 (most-detailed record, first rule): when several records carry a
\* non-empty intelligent_analysis, the combined record's problem_identified,
\* root_cause, intelligent_analysis and rag_solution come from the first such
\* record in list order.
C23_FirstAnalysedRecordWins ==
    (pc = "combined" /\ Cardinality(AnalysedIndexes) >= 2) =>
        LET first == k8s_case.all_findings[FirstIndex(AnalysedIndexes)]
            ia == first.intelligent_analysis
            combined == k8s_case.combined
        IN  /\ combined.intelligent_analysis = ia
            /\ "problem_summary" \in DOMAIN ia
                 => combined.problem_identified = ia.problem_summary
            /\ "root_cause" \in DOMAIN ia
                 => combined.root_cause = ia.root_cause
            /\ "rag_solution" \in DOMAIN first
                 => combined.rag_solution = first.rag_solution

UnhealthyIndexes ==
    {i \in DOMAIN k8s_case.all_findings :
        HasUnhealthyPods(k8s_case.all_findings[i])}

ExplicitIndexes ==
    {i \in DOMAIN k8s_case.all_findings :
        HasExplicitProblem(k8s_case.all_findings[i])}

\* the combined record's top-level texts are those of the given record: its
\* own problem_identified and root_cause, or the generic text when it has
\* neither
SeededBy(record) ==
    LET p == Get(record, "problem_identified", "")
        r == Get(record, "root_cause", "")
    IN  IF p = "" /\ r = ""
        THEN k8s_case.combined.problem_identified
               = "Issues detected in namespace analysis"
        ELSE /\ k8s_case.combined.problem_identified = p
             /\ k8s_case.combined.root_cause = r

\* C24 (most-detailed record, second and third rules): when no record
\* carries an intelligent_analysis, the selected record is the first record
\* with unhealthy pods if any record has unhealthy pods, even when a record
\* with only an explicit problem_identified/root_cause comes earlier; only
\* when no record has unhealthy pods is it the first record with an explicit
\* problem/root-cause string.
C24_UnhealthyBeforeExplicit ==
    (pc = "combined" /\ AnalysedIndexes = {}) =>
        IF UnhealthyIndexes # {}
        THEN SeededBy(k8s_case.all_findings[FirstIndex(UnhealthyIndexes)])
        ELSE ExplicitIndexes # {}
               => SeededBy(k8s_case.all_findings[FirstIndex(ExplicitIndexes)])

FirstFive(items) ==
    [i \in 1..(IF Len(items) < SolutionCap THEN Len(items) ELSE SolutionCap)
        |-> items[i]]

RecordHasIssue(record) ==
    \/ Get(record, "intelligent_analysis", EmptyDict) # EmptyDict
    \/ Get(record, "unhealthy_pods", <<>>) # <<>>
    \/ Get(record, "problem_identified", "") # ""
    \/ Get(record, "root_cause", "") # ""
    \/ Get(record, "root_causes", <<>>) # <<>>

StepsInCallOrder(history) ==
    \A i \in DOMAIN history : history[i].step = i

\* C27 (execution_history ordering): in every reachable state the i-th entry
\* of execution_history has step index i (1-based), so the indices increase
\* strictly in call order, and no step of the workflow removes or rewrites an
\* earlier entry.
C27_HistoryInCallOrder ==
    [][ /\ state' # None => StepsInCallOrder(state'.execution_history)
        /\ (state # None /\ state' # None) =>
              LET before == state.execution_history
                  after == state'.execution_history
              IN  /\ Len(before) <= Len(after)
                  /\ SubSeq(after, 1, Len(before)) = before ]_vars

\* the orchestrator and three agents have written steps 1, 2, 3 and 4
C27_FourStepsRecorded ==
    /\ pc = "END"
    /\ Len(state.execution_history) = 4
    /\ [i \in 1..4 |-> state.execution_history[i].step] = <<1, 2, 3, 4>>

\* some failing check, bot comment, issue, the prompt or the analysis text
\* matches the Jenkins keywords of post-GitHub routing
JenkinsKeywordMatch(findings, user_prompt) ==
    LET detailed_analysis ==
            Get(Get(findings, "analysis", EmptyDict), "detailed_analysis",
                EmptyDict)
        failing_checks ==
            Get(Get(detailed_analysis, "ci_cd", EmptyDict), "failing_checks",
                <<>>)
        bot_comments ==
            Get(Get(detailed_analysis, "issue_comments", EmptyDict),
                "bot_comments", <<>>)
        issues ==
            IF Get(findings, "pr_health", "")
                  \in {"Has Issues", "Needs Attention", "Failing"}
            THEN Get(findings, "issues", <<>>) ELSE <<>>
    IN  \/ \E i \in DOMAIN failing_checks :
              HasAny({Get(failing_checks[i], "name", "")},
                     {"jenkins", "build", "ci/cd", "continuous-integration"})
        \/ \E i \in DOMAIN bot_comments :
              HasAny({Get(bot_comments[i], "body", "")},
                     {"jenkins", "build failed", "ci workflow",
                      "waitforjenkinsjobcompletionactivity"})
        \/ \E i \in DOMAIN issues :
              HasAny({issues[i]}, {"jenkins", "build", "ci"})
        \/ HasAny(user_prompt, {"jenkins", "build", "ci/cd", "pipeline"})
        \/ HasAny(Get(findings, "analysis_text", {}),
                  {"jenkins build failed", "ci workflow did not complete",
                   "build failed"})

\* C28 (Jenkins priority in post-GitHub routing): when the GitHub node has
\* just run without escalating, Jenkins has not executed, and the GitHub
\* findings, the prompt or the analysis text contain a Jenkins-keyword match,
\* the next node is jenkins_agent, even when a Kubernetes-keyword match is
\* present in the same or another failing check, bot comment, issue or in
\* the prompt.
C28_JenkinsMatchRoutesToJenkins ==
    (/\ trace # <<>>
     /\ trace[Len(trace)] = "github_agent"
     /\ pc # "raised"
     /\ state.github_response # None
     /\ state.github_response.status
           \notin {"routing_to_k8s", "routing_to_jenkins"}
     /\ state.jenkins_response = None
     /\ JenkinsKeywordMatch(state.github_response.findings, state.user_prompt))
    => pc = "jenkins_agent"

\* the Kubernetes findings carry root causes and the current prompt mentions
\* a PR or a GitHub URL
RootCausesAndPrMention ==
    /\ state.kubernetes_response # None
    /\ Get(state.kubernetes_response.findings, "root_causes", <<>>) # <<>>
    /\ \E frag \in state.user_prompt :
          Keywords(Lower(frag)) \cap {"pr", "pull request", "github.com"} # {}

\* the Kubernetes node ran first and post-Kubernetes routing sent the run to
\* the summarizer
KubernetesThenSummarizer ==
    /\ Len(trace) >= 3
    /\ trace[2] = "kubernetes_agent"
    /\ trace[3] = "intelligent_summarizer"

JenkinsFailureType ==
    IF state.jenkins_response = None THEN ""
    ELSE Get(Get(state.jenkins_response.findings, "analysis", EmptyDict),
             "failure_type", "")

\* C30 (post-Jenkins routing): when the Jenkins node has just run, the next
\* node is kubernetes_agent iff the Jenkins findings classify the failure as
\* build_failure or test_failure, and the summarizer otherwise, including
\* when the Jenkins response is failed or has no analysis.
C30_PostJenkinsRouting ==
    (trace # <<>> /\ trace[Len(trace)] = "jenkins_agent" /\ pc # "raised") =>
        pc = IF JenkinsFailureType \in {"build_failure", "test_failure"}
             THEN "kubernetes_agent" ELSE "intelligent_summarizer"

\* a test failure sent the run on to Kubernetes
C30_TestFailureChained ==
    /\ trace # <<>>
    /\ trace[Len(trace)] = "jenkins_agent"
    /\ JenkinsFailureType = "test_failure"
    /\ pc = "kubernetes_agent"

\* the orchestrator node has run again after an agent node and appended a
\* second RoutingDecision in its re-routing branch
RouterRevisited ==
    /\ state # None
    /\ Len(state.routing_decisions) >= 2
    /\ \E i, j \in DOMAIN trace :
          /\ i < j
          /\ trace[i] \in AgentNodes
          /\ trace[j] = "orchestrator"

\* C31 (return to the router is reachable): an agent node's post-agent
\* routing hands control back to the orchestrator node, which takes its
\* re-routing branch (routing_decisions non-empty) and appends a second
\* RoutingDecision.  Some step of the run reaches that state.
C31_ReturnToRouter == <>RouterRevisited

\* re-routing rule 1 as stated: a CI/CD failure, a failing check named with
\* a health/deployment/probe keyword, or a bot comment with a health-check
\* term
GitHubShowsHealthFailure(findings) ==
    LET detailed_analysis ==
            Get(Get(findings, "analysis", EmptyDict), "detailed_analysis",
                EmptyDict)
        ci_cd == Get(detailed_analysis, "ci_cd", EmptyDict)
        failing_checks == Get(ci_cd, "failing_checks", <<>>)
        bot_comments ==
            Get(Get(detailed_analysis, "issue_comments", EmptyDict),
                "bot_comments", <<>>)
    IN  \/ Get(ci_cd, "has_failures", FALSE)
        \/ Get(ci_cd, "status", "") = "Failing"
        \/ \E i \in DOMAIN failing_checks :
              HasAny({Get(failing_checks[i], "name", "")},
                     {"health", "deployment", "k8s", "kubernetes", "probe"})
        \/ \E i \in DOMAIN bot_comments :
              HasAny({Get(bot_comments[i], "body", "")},
                     {"health check", "healthcheck", "probe", "deployment",
                      "k8s", "kubernetes"})

\* the next_agent the re-routing rule table gives for a state
ReRoutingRule(st) ==
    IF /\ st.github_response # None /\ st.kubernetes_response = None
       /\ GitHubShowsHealthFailure(st.github_response.findings)
    THEN "kubernetes"
    ELSE IF /\ st.kubernetes_response # None /\ st.github_response = None
            /\ Get(st.kubernetes_response.findings, "root_causes", <<>>) # <<>>
            /\ HasAny(st.user_prompt, {"pr", "pull request", "github.com"})
    THEN "github"
    ELSE "summarizer"

CorrelationLlmFailed ==
    /\ state # None
    /\ trace # <<>>
    /\ trace[Len(trace)] = "intelligent_summarizer"
    /\ inputs.correlation # None
    /\ inputs.correlation.kind \in {"raise", "not_object"}

\* C33 (correlation failure recovered by the deterministic fallback):
\* whenever the correlation engine is invoked and its LLM call raises or
\* returns empty or unparsable content, correlate_findings returns the
\* pattern-fallback result, so correlation_analysis is a non-null record
\* with correlation_found and correlation_type set.
C33_FallbackCorrelationRecorded ==
    CorrelationLlmFailed =>
        /\ state.correlation_analysis # None
        /\ {"correlation_found", "correlation_type"}
              \subseteq DOMAIN state.correlation_analysis

\* the position of github_agent in the trace, 0 when it has not run
GitHubIndex ==
    IF \E i \in DOMAIN trace : trace[i] = "github_agent"
    THEN CHOOSE i \in DOMAIN trace : trace[i] = "github_agent"
    ELSE 0

\* the GitHub agent ran before any Kubernetes run, did not escalate, reported
\* a failing check named with a health/probe keyword, and nothing matches
\* the Jenkins keywords
ProbeCheckScenario ==
    /\ state # None
    /\ GitHubIndex > 0
    /\ \A i \in 1..GitHubIndex : trace[i] # "kubernetes_agent"
    /\ state.github_response # None
    /\ state.github_response.status
          \notin {"routing_to_k8s", "routing_to_jenkins"}
    /\ LET findings == state.github_response.findings
           failing_checks ==
               Get(Get(Get(Get(findings, "analysis", EmptyDict),
                           "detailed_analysis", EmptyDict),
                       "ci_cd", EmptyDict),
                   "failing_checks", <<>>)
       IN  /\ \E i \in DOMAIN failing_checks :
                 HasAny({Get(failing_checks[i], "name", "")},
                        {"health", "deployment", "k8s", "kubernetes", "probe"})
           /\ ~JenkinsKeywordMatch(findings, state.user_prompt)

C35_OverallRunStatus ==
    (pc \in {"returned", "responded"} /\ result # None) =>
        /\ result.status
              \in {"completed", "completed_with_errors", "unsupported"}
        /\ result.status = "unsupported"
              <=> trace[Len(trace)] = "unavailable_agent"
        /\ result.status = "completed_with_errors"
              <=> /\ trace[Len(trace)] = "intelligent_summarizer"
                  /\ result.final_response = SummarizerErrorResponse

\* C36 (cross-request isolation of the cluster context): with two requests
\* in flight whose Kubernetes nodes interleave at suspension points, every
\* debug_application_health call runs while the process-wide kubectl
\* context is the one selected for that request.
C36_ClusterContextIsolation ==
    \A r \in Requests :
        LET request == k8s_case.requests[r]
        IN  \* a debug call is in progress, after the request switched to
            \* (or found itself on) the context it needs
            (/\ request.at \in {"pods", "events", "logs"}
             /\ request.target # ""
             /\ request.selected = request.target) =>
                k8s_case.kubectl_context = request.selected

\* C37 (agent_status and the agent responses agree): after the initial
\* routing, for each agent X, X_response is non-null iff agent_status has an
\* entry for X other than not_executed; agent_status[X] is completed iff
\* X_response.status is success; every agent_status value is one of
\* not_executed, completed, failed, routing_to_k8s, routing_to_jenkins.
C37_AgentStatusMatchesResponses ==
    (state # None /\ state.routing_decisions # <<>>) =>
        LET agent_status == state.agent_status
            Response(X) ==
                CASE X = "github" -> state.github_response
                  [] X = "kubernetes" -> state.kubernetes_response
                  [] X = "jenkins" -> state.jenkins_response
        IN  /\ \A X \in {"github", "kubernetes", "jenkins"} :
                  /\ Response(X) # None
                        <=> /\ X \in DOMAIN agent_status
                            /\ agent_status[X] # "not_executed"
                  /\ (X \in DOMAIN agent_status /\ agent_status[X] = "completed")
                        <=> (Response(X) # None /\ Response(X).status = "success")
            /\ \A X \in DOMAIN agent_status :
                  agent_status[X] \in {"not_executed", "completed", "failed",
                                       "routing_to_k8s", "routing_to_jenkins"}

\* GitHub escalated to Jenkins, whose analysis failed, and Kubernetes did
\* not run
C37_EscalatedThenJenkinsFailed ==
    /\ state # None
    /\ state.routing_decisions # <<>>
    /\ state.github_response # None
    /\ state.agent_status.github = "routing_to_jenkins"
    /\ state.jenkins_response # None
    /\ state.jenkins_response.status = "failed"
    /\ state.agent_status.jenkins = "failed"
    /\ state.kubernetes_response = None
    /\ state.agent_status.kubernetes = "not_executed"

\* C38 (a failed agent never raises confidence): confidence_level is medium
\* or high only if at least one agent response has a status other than
\* failed, and high only if at least two have.
C38_FailedAgentsDoNotCount ==
    (state # None /\ state.final_response # None) =>
        LET responses ==
                {state.github_response, state.kubernetes_response,
                 state.jenkins_response} \ {None}
            not_failed == {r \in responses : r.status # "failed"}
            level == Get(state.final_response, "confidence_level", "low")
        IN  /\ level \in {"medium", "high"} => Cardinality(not_failed) >= 1
            /\ level = "high" => Cardinality(not_failed) >= 2

\* C39 (confidence and confidence_level agree): in every /analyze response,
\* on the workflow path, the unsupported path and every error path,
\* confidence is false iff confidence_level is low.
C39_ConfidenceAgreesWithLevel ==
    (pc = "responded" /\ api_response # None) =>
        (api_response.confidence = FALSE
            <=> api_response.confidence_level = "low")

\* how many times a node has executed
Executions(node) == Cardinality({i \in DOMAIN trace : trace[i] = node})

\* C40 (bounded agent executions): the orchestrator executes exactly once,
\* GitHub and Jenkins at most once each and Kubernetes at most twice, so at
\* most four agent executions precede the terminal node; every run that
\* reaches the summarizer has executed at least one agent node.
C40_BoundedAgentExecutions ==
    trace # <<>> =>
        LET agents == Executions("github_agent") + Executions("kubernetes_agent")
                      + Executions("jenkins_agent")
        IN  /\ Executions("orchestrator") = 1
            /\ Executions("github_agent") <= 1
            /\ Executions("jenkins_agent") <= 1
            /\ Executions("kubernetes_agent") <= 2
            /\ agents <= 4
            /\ trace[Len(trace)] = "intelligent_summarizer" => agents >= 1

\* the longest run: Kubernetes, GitHub, Jenkins, Kubernetes again, then the
\* summarizer
C40_FourAgentExecutions ==
    trace = <<"orchestrator", "kubernetes_agent", "github_agent",
              "jenkins_agent", "kubernetes_agent", "intelligent_summarizer">>


=============================================================================
